---- MODULE Spec2Model ----
(***************************************************************************)
(* Model of the workflow engine of workflow-station: the condition         *)
(* evaluator (utils/condition.ts), the step handlers (steps/*.ts) and the  *)
(* queue-driven sequential scheduler MyWorkflow.run (index.ts).            *)
(*                                                                         *)
(* Text is a sequence of one-character strings, so that trim, toLowerCase  *)
(* and includes are computed character by character as JavaScript does.    *)
(***************************************************************************)
EXTENDS Integers, Sequences, FiniteSets, TLC

(***************************************************************************)
(* Bounds of the model.                                                    *)
(***************************************************************************)
\* longest instruction array drawn by Init
MaxN == 3
\* an Oracle answer handed to evaluateCondition is made of at most MaxWords fragments
MaxWords == 2
\* longest ifTrue / ifFalse list drawn by Init
MaxBranchLen == 2

(***************************************************************************)
(* Program constants.                                                      *)
(***************************************************************************)
\* step.do("process-step-n", {retries: {limit: 3}}): the first attempt and
\* up to 3 retries
DispatchRetryLimit == 3
\* step.do("evaluate-condition-n", {retries: {limit: 2}}): the first attempt
\* and up to 2 retries
ConditionRetryLimit == 2

(***************************************************************************)
(* Text.                                                                   *)
(***************************************************************************)
UpperChars == <<"A", "B", "C", "D", "E", "F", "G", "H", "I", "J", "K", "L", "M",
                "N", "O", "P", "Q", "R", "S", "T", "U", "V", "W", "X", "Y", "Z">>
LowerChars == <<"a", "b", "c", "d", "e", "f", "g", "h", "i", "j", "k", "l", "m",
                "n", "o", "p", "q", "r", "s", "t", "u", "v", "w", "x", "y", "z">>
WhiteSpace == {" ", "\n", "\t", "\r"}

\* String.prototype.toLowerCase, one character
LowerChar(c) ==
    IF \E i \in 1..Len(UpperChars) : UpperChars[i] = c
    THEN LowerChars[CHOOSE i \in 1..Len(UpperChars) : UpperChars[i] = c]
    ELSE c

\* String.prototype.toLowerCase
ToLowerCase(s) == [i \in 1..Len(s) |-> LowerChar(s[i])]

\* String.prototype.trim: drops the white space at both ends
Trim(s) ==
    LET keep == {i \in 1..Len(s) : s[i] \notin WhiteSpace}
    IN  IF keep = {} THEN <<>>
        ELSE LET lo == CHOOSE i \in keep : \A j \in keep : i <= j
                 hi == CHOOSE i \in keep : \A j \in keep : j <= i
             IN  SubSeq(s, lo, hi)

\* String.prototype.includes
Includes(s, sub) ==
    \E i \in 1..(Len(s) - Len(sub) + 1) : SubSeq(s, i, i + Len(sub) - 1) = sub

TextTrue == <<"t", "r", "u", "e">>
TextFalse == <<"f", "a", "l", "s", "e">>
TextYes == <<"y", "e", "s">>

(***************************************************************************)
(* utils/condition.ts                                                      *)
(***************************************************************************)
\* a bug the evaluator could have: an unclear answer counts as true
evaluateConditionLenient(response) ==
    LET normalized == ToLowerCase(Trim(response))
    IN  IF Includes(normalized, TextFalse) THEN FALSE ELSE TRUE

\* the verdict evaluateCondition returns for the Oracle's answer `response`
evaluateCondition(response) ==
    LET normalized == ToLowerCase(Trim(response))
    IN  IF Includes(normalized, TextTrue) /\ ~Includes(normalized, TextFalse)
        THEN TRUE
        ELSE IF Includes(normalized, TextFalse)
             THEN FALSE
             ELSE FALSE

(***************************************************************************)
(* types.ts: instructions.  An absent condition is the record NoCondition; *)
(* an absent ifTrue/ifFalse is the empty list (the code treats both alike: *)
(* `condition.ifTrue && condition.ifTrue.length > 0`); an absent           *)
(* evaluateAfterStep is 0 (step numbers start at 1).                       *)
(***************************************************************************)
NoCondition ==
    [present |-> FALSE, evaluateAfterStep |-> 0, ifTrue |-> <<>>, ifFalse |-> <<>>]

Condition(after, ifTrue, ifFalse) ==
    [present |-> TRUE, evaluateAfterStep |-> after, ifTrue |-> ifTrue, ifFalse |-> ifFalse]

\* ConditionalInstruction (a bare string normalizes to one without condition)
LLMInstruction(cond) == [type |-> "llm", condition |-> cond]

\* EndpointInstruction
EndpointInstruction(cond) == [type |-> "endpoint", condition |-> cond]

\* ThreadInstruction; mode "deterministic" also stands for an absent completionCheck
ThreadInstruction(collect, mode, hasExpression, cond) ==
    [type |-> "thread", condition |-> cond, collectFromSteps |-> collect,
     completionCheck |-> [mode |-> mode, expression |-> hasExpression]]

\* a required field that the payload leaves out (the cast at lines 141-177
\* checks only `type`)
Undefined == -1

\* RouterInstruction with `options` declared options, or Undefined
RouterInstruction(options, mock, cond) ==
    [type |-> "router", condition |-> cond, options |-> options, mock |-> mock]

\* AgentInstruction with `tools` available tools
AgentInstruction(tools, fallback, mock, cond) ==
    [type |-> "agent", condition |-> cond, availableTools |-> tools,
     fallbackBehavior |-> fallback, mock |-> mock]

(***************************************************************************)
(* The Oracle and the Gateway are outside the program: a call either       *)
(* returns or throws.  The answers the Oracle gives to a condition:        *)
(***************************************************************************)
OracleResponses == {TextTrue, TextFalse, TextYes}

(***************************************************************************)
(* steps/*.ts: what one call of a handler can do.  An outcome is whether   *)
(* the handler returned (ok) or threw, the errorTypes it passed to         *)
(* ctx.addError and the levels it passed to ctx.addLog, in call order.     *)
(***************************************************************************)
Outcome(ok, errorTypes, logs) == [ok |-> ok, errorTypes |-> errorTypes, logs |-> logs]

\* steps/llm-step.ts: one Oracle call, nothing caught, nothing recorded
executeLLMStep(inst) ==
    {Outcome(TRUE, <<>>, <<>>), Outcome(FALSE, <<>>, <<>>)}

\* steps/endpoint-step.ts: one Gateway call; a failure is logged, recorded, rethrown
executeEndpointStep(inst) ==
    {Outcome(TRUE, <<>>, <<"info", "info">>),
     Outcome(FALSE, <<"endpoint">>, <<"info", "error">>)}

\* a bug: only the first requested step number is looked up
missingStepsFirstOnly(inst, steps) ==
    SelectSeq(IF inst.collectFromSteps = <<>> THEN <<>> ELSE <<Head(inst.collectFromSteps)>>,
              LAMBDA n : ~\E k \in 1..Len(steps) : steps[k].stepNumber = n)

\* steps/thread-step.ts: the requested step numbers that have no StepResult
missingSteps(inst, steps) ==
    SelectSeq(inst.collectFromSteps,
              LAMBDA n : ~\E k \in 1..Len(steps) : steps[k].stepNumber = n)

\* steps/thread-step.ts
executeThreadStep(inst, steps) ==
    LET missing == missingSteps(inst, steps)
        check == inst.completionCheck
        complete ==
            IF check.mode = "deterministic" THEN {missing = <<>>}
            ELSE IF check.mode = "llm" /\ check.expression
                 THEN {evaluateCondition(r) : r \in OracleResponses}
                 ELSE {FALSE}
        oracleThrows ==
            IF check.mode = "llm" /\ check.expression
            THEN {Outcome(FALSE, <<>>, <<>>)} ELSE {}
    IN  oracleThrows \cup
        {Outcome(~(~isComplete /\ missing # <<>>), <<>>, <<>>) : isComplete \in complete}

\* router-step.ts / agent-step.ts: calling the endpoint of the selected option
\* (directly when it is a mock, else through the Gateway), then JSON.parse of
\* what came back, which is outside the try block
callSelected(mock, before, tag) ==
    LET called == IF mock THEN before \o <<"info">> ELSE before
    IN  {Outcome(TRUE, <<>>, called \o <<"info">>),
         Outcome(FALSE, <<tag>>, called \o <<"error">>),
         Outcome(FALSE, <<>>, called \o <<"info">>)}

\* steps/router-step.ts
executeRouterStep(inst) ==
    LET start == <<"info", "debug">>
        asked == start \o <<"info">>
        exact == asked
        partial == asked \o <<"warn">>
        fallback == asked \o <<"warn", "warn">>
    IN  IF inst.options = Undefined
        THEN \* line 20: instruction.options.length is a TypeError, before any log
             {Outcome(FALSE, <<>>, <<>>)}
        ELSE {Outcome(FALSE, <<"router-llm">>, start \o <<"error">>)}
             \cup (IF inst.options = 0
                   THEN {Outcome(FALSE, <<"router-selection">>, fallback \o <<"error">>)}
                   ELSE UNION {callSelected(inst.mock, found \o <<"info">>,
                                            "router-endpoint")
                               : found \in {exact, partial, fallback}})

\* steps/agent-step.ts
executeAgentStep(inst) ==
    LET start == <<"info", "debug">>
        asked == start \o <<"info">>
        noTool == asked \o <<"info">>
        exact == asked
        partial == asked \o <<"warn">>
        first == asked \o <<"warn", "warn">>
    IN  {Outcome(FALSE, <<"agent-llm">>, start \o <<"error">>)}
        \cup (IF inst.fallbackBehavior = "skip"
              THEN {Outcome(TRUE, <<>>, noTool)}
              ELSE {Outcome(TRUE, <<>>, noTool \o <<"info">>),
                    Outcome(FALSE, <<"agent-llm-fallback">>, noTool \o <<"info", "error">>)})
        \cup (IF inst.availableTools = 0
              THEN {Outcome(FALSE, <<"agent-no-tools">>, asked \o <<"warn", "error">>)}
              ELSE UNION {callSelected(inst.mock, found \o <<"info">>, "agent-endpoint")
                          : found \in {exact, partial, first}})

\* steps/index.ts: getStepType
getStepType(inst) == inst.type

\* steps/index.ts: executeStep routes on the type
executeStep(inst, steps) ==
    CASE getStepType(inst) = "endpoint" -> executeEndpointStep(inst)
      [] getStepType(inst) = "thread" -> executeThreadStep(inst, steps)
      [] getStepType(inst) = "router" -> executeRouterStep(inst)
      [] getStepType(inst) = "agent" -> executeAgentStep(inst)
      [] OTHER -> executeLLMStep(inst)

(***************************************************************************)
(* index.ts: MyWorkflow.run, the sequential branching scheduler.           *)
(***************************************************************************)
VARIABLES
    instructions,       \* normalizedInstructions; index i is instructions[i + 1]
    branchTargetSteps,  \* the set built before the loop
    executionQueue,     \* FIFO of step indices
    executedSteps,      \* indices already taken from the queue and started
    currentResult,      \* the WorkflowResult being built: steps, finalizedAt, errors, logs
    pc,                 \* "dequeue" | "dispatch" | "condition" | "done" | "failed"
    stepIndex,          \* the index taken from the queue in this iteration
    stepNumber,         \* currentResult.steps.length + 1 at the start of the iteration
    stepResult,         \* what step.do("process-step-n") returned in this iteration
    evaluated,          \* resultToEvaluate / stepNumberToEvaluate of this iteration
    conditionResult,    \* "undefined", or the verdict of this iteration's condition
    attempt,            \* failed attempts of the step.do in flight
    response,           \* the Oracle's last answer to a condition
    output,             \* what run() gave its caller: a WorkflowResult or an error
    trace,              \* history: the indices dispatched, in order
    request,            \* fetch: the request being answered (NoRequest: a run started directly)
    httpResponse,       \* fetch: the Response returned
    instances,          \* fetch: how many times env.MY_WORKFLOW.create has succeeded
    instruction,        \* a step handler called on its own: its instruction argument
    ctx,                \* a step handler called on its own: its StepContext
    handled             \* a step handler called on its own: what it returned or threw

entryVars == <<request, httpResponse, instances>>
handlerVars == <<instruction, ctx, handled>>

vars == <<instructions, branchTargetSteps, executionQueue, executedSteps, currentResult,
          pc, stepIndex, stepNumber, stepResult, evaluated, conditionResult, attempt,
          response, output, trace, entryVars, handlerVars>>

NoRequest == [path |-> "none"]
NoResponse == [status |-> 0]
NoCall == [type |-> "none"]

\* no request is being answered
NoEntry == request = NoRequest /\ httpResponse = NoResponse /\ instances = 0

\* no handler is called on its own
NoHandler == instruction = NoCall /\ ctx = NoCall /\ handled = NoCall

N == Len(instructions)
Inst(i) == instructions[i + 1]
Range(seq) == {seq[k] : k \in 1..Len(seq)}

\* a bug: only the ifTrue lists are collected
branchTargetsOfTrueOnly(insts) ==
    UNION {Range(insts[k].condition.ifTrue)
           : k \in {j \in 1..Len(insts) : insts[j].condition.present}}

\* lines 236-248: the union of all ifTrue and ifFalse lists
branchTargets(insts) ==
    UNION {Range(insts[k].condition.ifTrue) \cup Range(insts[k].condition.ifFalse)
           : k \in {j \in 1..Len(insts) : insts[j].condition.present}}

\* a bug: the guard against re-execution is missing
hasExecutedNever(executed, idx) == FALSE

\* line 258: executedSteps.has(stepIndex)
hasExecuted(executed, idx) == idx \in executed

\* line 263: stepIndex < 0 || stepIndex >= normalizedInstructions.length
outOfBounds(idx, len) == idx < 0 \/ idx >= len

\* a bug: step numbers follow the array position
nextStepNumberByIndex(steps, idx) == idx + 1

\* line 269: currentResult.steps.length + 1
nextStepNumber(steps, idx) == Len(steps) + 1

\* a bug: the two branch lists are swapped
branchSuccessorsSwapped(condition, verdict, idx, len) ==
    LET taken == IF verdict THEN condition.ifFalse ELSE condition.ifTrue
    IN  IF Len(taken) > 0 THEN taken
        ELSE IF idx + 1 < len THEN <<idx + 1>> ELSE <<>>

\* a bug: the conditioned step falls through as well as branching
branchSuccessorsAndNext(condition, verdict, idx, len) ==
    LET taken == IF verdict THEN condition.ifTrue ELSE condition.ifFalse
    IN  taken \o (IF idx + 1 < len THEN <<idx + 1>> ELSE <<>>)

\* lines 385-408: what a conditioned step pushes on the queue
branchSuccessors(condition, verdict, idx, len) ==
    LET taken == IF verdict THEN condition.ifTrue ELSE condition.ifFalse
    IN  IF Len(taken) > 0 THEN taken
        ELSE IF idx + 1 < len THEN <<idx + 1>> ELSE <<>>

\* a bug: a branch target falls through like any other step
sequentialSuccessorsAlways(idx, len, targets) ==
    IF idx + 1 < len THEN <<idx + 1>> ELSE <<>>

\* a bug: nothing follows an unconditioned step
sequentialSuccessorsNone(idx, len, targets) == <<>>

\* lines 409-418: what an unconditioned step pushes on the queue
sequentialSuccessors(idx, len, targets) ==
    IF idx \notin targets /\ idx + 1 < len THEN <<idx + 1>> ELSE <<>>

NoStepResult == [stepNumber |-> 0, instruction |-> -1, result |-> -1]
NothingEvaluated == [stepNumber |-> 0, result |-> -1]

\* lines 322-328: the value the process-step callback returns.  The instruction
\* text and the result text are named by the index of the instruction they
\* come from.
processStepValue(number, idx) == [stepNumber |-> number, instruction |-> idx, result |-> idx]

\* lines 421-428: the StepResult pushed at the end of the iteration
storedStep(value, condition, verdict, branch) ==
    [stepNumber |-> value.stepNumber, instruction |-> value.instruction,
     result |-> value.result, conditionEvaluated |-> condition.present,
     conditionResult |-> verdict, branchTaken |-> branch]

\* lines 191-204: addLog
addLog(result, levels, number) ==
    [result EXCEPT !.logs = @ \o [k \in 1..Len(levels) |->
                                   [level |-> levels[k], stepNumber |-> number]]]

\* lines 207-222: addError
addError(result, types, number, idx) ==
    [result EXCEPT !.errors = @ \o [k \in 1..Len(types) |->
                                     [stepNumber |-> number, stepIndex |-> idx,
                                      errorType |-> types[k]]]]

\* a bug: an attempt that succeeds clears the errors of the attempts before it
recordedClearedOnSuccess(result, outcome, number, idx) ==
    IF outcome.ok
    THEN [addLog(result, outcome.logs, number) EXCEPT
             !.errors = SelectSeq(@, LAMBDA e : e.stepNumber # number)]
    ELSE addError(addLog(result, outcome.logs, number), outcome.errorTypes, number, idx)

\* what a handler's outcome leaves in currentResult
recorded(result, outcome, number, idx) ==
    addError(addLog(result, outcome.logs, number), outcome.errorTypes, number, idx)

Running == [status |-> "running", error |-> "", result |-> <<>>]
Returned(result) == [status |-> "returned", error |-> "", result |-> <<result>>]
Threw(error) == [status |-> "threw", error |-> error, result |-> <<>>]

(***************************************************************************)
(* The instruction arrays a run is started with.                           *)
(***************************************************************************)
Lists(S) == UNION {[1..k -> S] : k \in 0..MaxBranchLen}
ShortLists(S) == {<<>>} \cup {<<a>> : a \in S}
Plain(n) == [k \in 1..n |-> LLMInstruction(NoCondition)]

\* one conditioned instruction; one of its branch lists has up to MaxBranchLen
\* indices in range, the other is empty or a single index
OneConditionPrograms ==
    UNION {UNION {{[Plain(n) EXCEPT ![p] = LLMInstruction(Condition(0, tf[1], tf[2]))]
                   : tf \in (Lists(0..(n - 1)) \X ShortLists(0..(n - 1)))
                            \cup (ShortLists(0..(n - 1)) \X Lists(0..(n - 1)))}
                  : p \in 1..n}
           : n \in 1..MaxN}

\* two conditioned instructions, each branch list empty or a single index
TwoConditionPrograms ==
    UNION {UNION {{[Plain(n) EXCEPT ![pq[1]] = LLMInstruction(Condition(0, t1, f1)),
                                    ![pq[2]] = LLMInstruction(Condition(0, t2, f2))]
                   : t1 \in ShortLists(0..(n - 1)), f1 \in ShortLists(0..(n - 1)),
                     t2 \in ShortLists(0..(n - 1)), f2 \in ShortLists(0..(n - 1))}
                  : pq \in {x \in (1..n) \X (1..n) : x[1] < x[2]}}
           : n \in 1..MaxN}

\* a branch list that names an index outside the array
OutOfRangePrograms ==
    UNION {UNION {{[Plain(n) EXCEPT ![p] = LLMInstruction(Condition(0, <<t>>, f))]
                   : t \in {-1, n}, f \in ShortLists(0..(n - 1))}
                  : p \in 1..n}
           : n \in 1..MaxN}

\* a condition evaluated against the result of a named step
EvaluateAfterPrograms ==
    UNION {UNION {{[Plain(n) EXCEPT ![p] = LLMInstruction(Condition(after, t, <<>>))]
                   : after \in 1..n, t \in ShortLists(0..(n - 1))}
                  : p \in 1..n}
           : n \in 1..2}

\* the other instruction variants, alone and after an LLM step
TypedInstructions ==
    {EndpointInstruction(NoCondition), EndpointInstruction(Condition(0, <<>>, <<>>))}
    \cup {ThreadInstruction(<<c>>, m[1], m[2], NoCondition)
          : c \in 1..2, m \in {<<"deterministic", FALSE>>, <<"llm", TRUE>>, <<"llm", FALSE>>}}
    \cup {RouterInstruction(o, m, NoCondition) : o \in 0..1, m \in BOOLEAN}
    \cup {RouterInstruction(Undefined, FALSE, NoCondition)}
    \cup {AgentInstruction(o, fb, FALSE, NoCondition) : o \in 0..1, fb \in {"skip", "llm"}}

TypedPrograms ==
    {<<x>> : x \in TypedInstructions}
    \cup {<<LLMInstruction(NoCondition), x>> : x \in TypedInstructions}
    \cup {<<EndpointInstruction(NoCondition), LLMInstruction(NoCondition)>>}

\* spec.md, Example A: [Simple "A", Conditional "check" {ifTrue [2], ifFalse [3]},
\* Simple "success", Simple "fail"]
ExampleA ==
    <<LLMInstruction(NoCondition), LLMInstruction(Condition(0, <<2>>, <<3>>)),
      LLMInstruction(NoCondition), LLMInstruction(NoCondition)>>

\* index.ts, the usage message: conditionalExample
ConditionalExample ==
    <<LLMInstruction(Condition(1, <<1>>, <<2>>)), LLMInstruction(NoCondition),
      LLMInstruction(NoCondition)>>

\* no instruction has a condition
PlainPrograms == {Plain(n) : n \in 1..MaxN}

\* a Thread step that a branch list names, so that it may run out of array order
ThreadAfterBranchPrograms ==
    {<<LLMInstruction(Condition(0, t, <<>>)),
       ThreadInstruction(c, "deterministic", FALSE, NoCondition),
       LLMInstruction(NoCondition)>>
     : t \in {<<1>>, <<1, 2>>, <<2, 1>>}, c \in {<<1>>, <<2>>, <<3>>, <<2, 3>>, <<1, 2>>}}

Programs ==
    OneConditionPrograms \cup TwoConditionPrograms \cup OutOfRangePrograms
    \cup EvaluateAfterPrograms \cup TypedPrograms \cup PlainPrograms
    \cup ThreadAfterBranchPrograms
    \cup {ExampleA, ConditionalExample}

(***************************************************************************)
(* The state when the while loop is first reached (lines 181-251).         *)
(***************************************************************************)
Init ==
    /\ instructions \in Programs
    /\ branchTargetSteps = branchTargets(instructions)
    /\ executionQueue = <<0>>
    /\ executedSteps = {}
    /\ currentResult = [steps |-> <<>>, finalizedAt |-> FALSE, errors |-> <<>>,
                        logs |-> <<[level |-> "info", stepNumber |-> 0]>>]
    /\ pc = "dequeue"
    /\ stepIndex = -1
    /\ stepNumber = 0
    /\ stepResult = NoStepResult
    /\ evaluated = NothingEvaluated
    /\ conditionResult = "undefined"
    /\ attempt = 0
    /\ response = <<>>
    /\ output = Running
    /\ trace = <<>>
    /\ NoEntry
    /\ NoHandler

(***************************************************************************)
(* One action per stretch of run() between two awaits.                     *)
(***************************************************************************)
\* lines 255-260: the index at the head was executed before
SkipExecuted ==
    /\ pc = "dequeue"
    /\ executionQueue # <<>>
    /\ hasExecuted(executedSteps, Head(executionQueue))
    /\ executionQueue' = Tail(executionQueue)
    /\ UNCHANGED <<entryVars, handlerVars, instructions, branchTargetSteps, executedSteps, currentResult, pc,
                   stepIndex, stepNumber, stepResult, evaluated, conditionResult, attempt, response,
                   output, trace>>

\* lines 255-265: the index at the head is outside the array
SkipOutOfBounds ==
    /\ pc = "dequeue"
    /\ executionQueue # <<>>
    /\ ~hasExecuted(executedSteps, Head(executionQueue))
    /\ outOfBounds(Head(executionQueue), N)
    /\ executionQueue' = Tail(executionQueue)
    /\ UNCHANGED <<entryVars, handlerVars, instructions, branchTargetSteps, executedSteps, currentResult, pc,
                   stepIndex, stepNumber, stepResult, evaluated, conditionResult, attempt, response,
                   output, trace>>

\* event.payload.context, the text the run starts from; results are named
\* by the index of their instruction, the context by a number that is no index
context == -2

\* a bug: the result of the first StepResult is handed on, not of the last
previousResultOfFirst(stored) ==
    IF Len(stored) > 0 THEN stored[1].result ELSE context

\* lines 273-277: the previous result handed to a step
previousResult(stored) ==
    IF Len(stored) > 0 THEN stored[Len(stored)].result ELSE context

\* lines 283-294: the StepContext built for the handler
stepContext(stored, number, idx) ==
    [previousResult |-> previousResult(stored), isFirstStep |-> Len(stored) = 0,
     stepNumber |-> number, stepIndex |-> idx]

\* a bug: the next index is taken from anywhere in the queue
StartStepAnyPosition ==
    /\ pc = "dequeue"
    /\ \E p \in 1..Len(executionQueue) :
          /\ ~hasExecuted(executedSteps, executionQueue[p])
          /\ ~outOfBounds(executionQueue[p], N)
          /\ executionQueue' = SubSeq(executionQueue, 1, p - 1)
                                \o SubSeq(executionQueue, p + 1, Len(executionQueue))
          /\ executedSteps' = executedSteps \cup {executionQueue[p]}
          /\ stepIndex' = executionQueue[p]
          /\ stepNumber' = nextStepNumber(currentResult.steps, executionQueue[p])
          /\ trace' = Append(trace, executionQueue[p])
    /\ ctx' = stepContext(currentResult.steps, stepNumber', stepIndex')
    /\ currentResult' = addLog(currentResult, <<"info">>, stepNumber')
    /\ pc' = "dispatch"
    /\ attempt' = 0
    /\ stepResult' = NoStepResult
    /\ evaluated' = NothingEvaluated
    /\ conditionResult' = "undefined"
    /\ UNCHANGED <<entryVars, instruction, handled, instructions, branchTargetSteps, response,
                   output>>

\* lines 255-297: the index at the head is started; step.do is awaited
StartStep ==
    /\ pc = "dequeue"
    /\ executionQueue # <<>>
    /\ ~hasExecuted(executedSteps, Head(executionQueue))
    /\ ~outOfBounds(Head(executionQueue), N)
    /\ executionQueue' = Tail(executionQueue)
    /\ executedSteps' = executedSteps \cup {Head(executionQueue)}
    /\ stepIndex' = Head(executionQueue)
    /\ stepNumber' = nextStepNumber(currentResult.steps, Head(executionQueue))
    /\ ctx' = stepContext(currentResult.steps, stepNumber', stepIndex')
    /\ currentResult' = addLog(currentResult, <<"info">>, stepNumber')
    /\ pc' = "dispatch"
    /\ attempt' = 0
    /\ stepResult' = NoStepResult
    /\ evaluated' = NothingEvaluated
    /\ conditionResult' = "undefined"
    /\ trace' = Append(trace, Head(executionQueue))
    /\ UNCHANGED <<entryVars, instruction, handled, instructions, branchTargetSteps, response,
                   output>>

\* a bug: the error that leaves step.do is caught and the loop goes on
DispatchThrowsSwallowed ==
    /\ pc = "dispatch"
    /\ \E o \in executeStep(Inst(stepIndex), currentResult.steps) :
          /\ ~o.ok
          /\ currentResult' = recorded(currentResult, o, stepNumber, stepIndex)
    /\ attempt' = attempt + 1
    /\ pc' = (IF attempt' > DispatchRetryLimit THEN "dequeue" ELSE pc)
    /\ UNCHANGED <<entryVars, handlerVars, instructions, branchTargetSteps, executionQueue, executedSteps,
                   stepIndex, stepNumber, stepResult, evaluated, conditionResult,
                   response, output, trace>>

\* lines 297-330: an attempt of the handler throws; the substrate retries it
\* until the limit, then the error leaves step.do and run()
DispatchThrows ==
    /\ pc = "dispatch"
    /\ \E o \in executeStep(Inst(stepIndex), currentResult.steps) :
          /\ ~o.ok
          /\ currentResult' = recorded(currentResult, o, stepNumber, stepIndex)
    /\ attempt' = attempt + 1
    /\ IF attempt' > DispatchRetryLimit
       THEN pc' = "failed" /\ output' = Threw("dispatch")
       ELSE UNCHANGED <<pc, output>>
    /\ UNCHANGED <<entryVars, handlerVars, instructions, branchTargetSteps, executionQueue, executedSteps,
                   stepIndex, stepNumber, stepResult, evaluated, conditionResult, response, trace>>

\* lines 297-336, 409-428: the handler returns and the step has no condition
DispatchReturnsUnconditioned ==
    /\ pc = "dispatch"
    /\ ~Inst(stepIndex).condition.present
    /\ \E o \in executeStep(Inst(stepIndex), currentResult.steps) :
          /\ o.ok
          /\ stepResult' = processStepValue(stepNumber, stepIndex)
          /\ currentResult' =
                [recorded(currentResult, o, stepNumber, stepIndex) EXCEPT
                    !.steps = Append(@, storedStep(stepResult', NoCondition,
                                                   "undefined", "sequential"))]
    /\ executionQueue' =
          executionQueue \o sequentialSuccessors(stepIndex, N, branchTargetSteps)
    /\ pc' = "dequeue"
    /\ attempt' = 0
    /\ UNCHANGED <<entryVars, handlerVars, instructions, branchTargetSteps, executedSteps, stepIndex,
                   stepNumber, evaluated, conditionResult, response, output, trace>>

\* lines 341-360: the result the condition is evaluated against
subjectFound(condition, steps) ==
    condition.evaluateAfterStep = 0
    \/ \E k \in 1..Len(steps) : steps[k].stepNumber = condition.evaluateAfterStep

subjectOf(condition, steps, value) ==
    IF condition.evaluateAfterStep = 0
    THEN [stepNumber |-> value.stepNumber, result |-> value.result]
    ELSE LET k == CHOOSE j \in 1..Len(steps) :
                     /\ steps[j].stepNumber = condition.evaluateAfterStep
                     /\ \A i \in 1..(j - 1) :
                           steps[i].stepNumber # condition.evaluateAfterStep
         IN  [stepNumber |-> condition.evaluateAfterStep, result |-> steps[k].result]

\* a bug: the evaluation of the condition is not awaited and the loop goes on
DispatchReturnsConditionedNotAwaited ==
    /\ pc = "dispatch"
    /\ Inst(stepIndex).condition.present
    /\ subjectFound(Inst(stepIndex).condition, currentResult.steps)
    /\ \E o \in executeStep(Inst(stepIndex), currentResult.steps) :
          /\ o.ok
          /\ currentResult' = recorded(currentResult, o, stepNumber, stepIndex)
    /\ stepResult' = processStepValue(stepNumber, stepIndex)
    /\ evaluated' = subjectOf(Inst(stepIndex).condition, currentResult.steps, stepResult')
    /\ executionQueue' =
          executionQueue \o sequentialSuccessors(stepIndex, N, branchTargetSteps)
    /\ pc' = "dequeue"
    /\ attempt' = 0
    /\ UNCHANGED <<entryVars, handlerVars, instructions, branchTargetSteps, executedSteps,
                   stepIndex, stepNumber, conditionResult, response, output, trace>>

\* lines 297-383: the handler returns, the step has a condition whose subject
\* exists; the second step.do is awaited
DispatchReturnsConditioned ==
    /\ pc = "dispatch"
    /\ Inst(stepIndex).condition.present
    /\ subjectFound(Inst(stepIndex).condition, currentResult.steps)
    /\ \E o \in executeStep(Inst(stepIndex), currentResult.steps) :
          /\ o.ok
          /\ currentResult' = recorded(currentResult, o, stepNumber, stepIndex)
    /\ stepResult' = processStepValue(stepNumber, stepIndex)
    /\ evaluated' = subjectOf(Inst(stepIndex).condition, currentResult.steps, stepResult')
    /\ pc' = "condition"
    /\ attempt' = 0
    /\ UNCHANGED <<entryVars, handlerVars, instructions, branchTargetSteps, executionQueue, executedSteps,
                   stepIndex, stepNumber, conditionResult, response, output, trace>>

\* lines 344-353: evaluateAfterStep names a step number with no StepResult
DispatchReturnsSubjectMissing ==
    /\ pc = "dispatch"
    /\ Inst(stepIndex).condition.present
    /\ ~subjectFound(Inst(stepIndex).condition, currentResult.steps)
    /\ \E o \in executeStep(Inst(stepIndex), currentResult.steps) :
          /\ o.ok
          /\ currentResult' = recorded(currentResult, o, stepNumber, stepIndex)
    /\ stepResult' = processStepValue(stepNumber, stepIndex)
    /\ pc' = "failed"
    /\ output' = Threw("step not found")
    /\ attempt' = 0
    /\ UNCHANGED <<entryVars, handlerVars, instructions, branchTargetSteps, executionQueue, executedSteps,
                   stepIndex, stepNumber, evaluated, conditionResult, response, trace>>

\* lines 363-383: an attempt of evaluateCondition throws (the Oracle call failed)
ConditionThrows ==
    /\ pc = "condition"
    /\ attempt' = attempt + 1
    /\ IF attempt' > ConditionRetryLimit
       THEN pc' = "failed" /\ output' = Threw("condition")
       ELSE UNCHANGED <<pc, output>>
    /\ UNCHANGED <<entryVars, handlerVars, instructions, branchTargetSteps, executionQueue, executedSteps,
                   currentResult, stepIndex, stepNumber, stepResult, evaluated, conditionResult,
                   response, trace>>

\* lines 363-428: the Oracle answers, the verdict selects what is queued and
\* the StepResult is stored
ConditionReturns ==
    /\ pc = "condition"
    /\ \E r \in OracleResponses :
          LET verdict == evaluateCondition(r)
              text == IF verdict THEN "true" ELSE "false"
          IN  /\ response' = r
              /\ conditionResult' = text
              /\ executionQueue' =
                    executionQueue \o
                    branchSuccessors(Inst(stepIndex).condition, verdict, stepIndex, N)
              /\ currentResult' =
                    [currentResult EXCEPT
                        !.steps = Append(@, storedStep(stepResult, Inst(stepIndex).condition,
                                                       text, text))]
    /\ pc' = "dequeue"
    /\ attempt' = 0
    /\ UNCHANGED <<entryVars, handlerVars, instructions, branchTargetSteps, executedSteps, stepIndex,
                   stepNumber, stepResult, evaluated, output, trace>>

\* lines 431-435: the queue is empty; the result is finalized and returned
Finalize ==
    /\ pc = "dequeue"
    /\ executionQueue = <<>>
    /\ currentResult' = [currentResult EXCEPT !.finalizedAt = TRUE]
    /\ pc' = "done"
    /\ output' = Returned(currentResult')
    /\ UNCHANGED <<entryVars, handlerVars, instructions, branchTargetSteps, executionQueue, executedSteps,
                   stepIndex, stepNumber, stepResult, evaluated, conditionResult, attempt, response,
                   trace>>

Next ==
    \/ SkipExecuted
    \/ SkipOutOfBounds
    \/ StartStep
    \/ DispatchThrows
    \/ DispatchReturnsUnconditioned
    \/ DispatchReturnsConditioned
    \/ DispatchReturnsSubjectMissing
    \/ ConditionThrows
    \/ ConditionReturns
    \/ Finalize

Spec == Init /\ [][Next]_vars

\* every dispatch and every condition evaluation is awaited to completion, and
\* the loop goes on whenever it can
FairSpec == Spec /\ WF_vars(Next)

(***************************************************************************)
(* evaluateCondition on its own: the answers it may be handed are made of  *)
(* up to MaxWords fragments, so that the words true and false occur in any *)
(* case, padded, embedded, together, split over fragments, or not at all.  *)
(***************************************************************************)
Fragments ==
    {TextTrue, TextFalse, TextYes,
     <<"T", "R", "U", "E">>, <<"F", "a", "l", "s", "e">>,
     <<"m", "a", "y", "b", "e">>, <<"t">>, <<"r", "u", "e">>,
     <<" ">>, <<"\n">>, <<".">>}

RECURSIVE Flatten(_)
Flatten(words) == IF words = <<>> THEN <<>> ELSE Head(words) \o Flatten(Tail(words))

Responses == {Flatten(words) : words \in UNION {[1..k -> Fragments] : k \in 0..MaxWords}}

InitEval ==
    /\ response \in Responses
    /\ pc = "evaluate"
    /\ conditionResult = "undefined"
    /\ instructions = <<>>
    /\ branchTargetSteps = {}
    /\ executionQueue = <<>>
    /\ executedSteps = {}
    /\ currentResult = [steps |-> <<>>, finalizedAt |-> FALSE, errors |-> <<>>,
                        logs |-> <<>>]
    /\ stepIndex = -1
    /\ stepNumber = 0
    /\ stepResult = NoStepResult
    /\ evaluated = NothingEvaluated
    /\ attempt = 0
    /\ output = Running
    /\ trace = <<>>
    /\ NoEntry
    /\ NoHandler

\* utils/condition.ts, lines 26-47: the Oracle has answered `response`
Evaluate ==
    /\ pc = "evaluate"
    /\ conditionResult' = (IF evaluateCondition(response) THEN "true" ELSE "false")
    /\ pc' = "evaluated"
    /\ UNCHANGED <<entryVars, handlerVars, instructions, branchTargetSteps, executionQueue, executedSteps,
                   currentResult, stepIndex, stepNumber, stepResult, evaluated, attempt,
                   response, output, trace>>

NextEval == Evaluate

SpecEval == InitEval /\ [][NextEval]_vars

(***************************************************************************)
(* Properties of the sequential scheduler.                                 *)
(***************************************************************************)
steps == currentResult.steps
NoRepeat(seq) == \A a, b \in 1..Len(seq) : a # b => seq[a] # seq[b]
StepInstructions == [k \in 1..Len(steps) |-> steps[k].instruction]

\* the branch list a stored StepResult says was taken
TakenList(step) ==
    IF step.branchTaken = "true" THEN Inst(step.instruction).condition.ifTrue
    ELSE IF step.branchTaken = "false" THEN Inst(step.instruction).condition.ifFalse
    ELSE <<>>

\* C1: whatever the instruction list and the Oracle's verdicts, no instruction
\* index is dispatched twice and no two StepResults come from the same index.
C1_NoIndexTwice == NoRepeat(trace) /\ NoRepeat(StepInstructions)

\* a run in which a taken branch list pointed backwards or at the step itself,
\* and the index it named came up at the head of the queue again
C1_Witness ==
    /\ pc = "dequeue"
    /\ executionQueue # <<>>
    /\ Head(executionQueue) \in executedSteps
    /\ \E k \in 1..Len(steps) :
          /\ Head(executionQueue) \in Range(TakenList(steps[k]))
          /\ Head(executionQueue) <= steps[k].instruction

\* C2: every run in which the awaited calls complete comes to an end, by
\* returning with the queue empty or by throwing, after at most N dispatches.
C2_Terminates ==
    /\ [](Len(trace) <= N)
    /\ [](pc = "done" => executionQueue = <<>>)
    /\ <>(pc \in {"done", "failed"})

\* a run that returned although a branch it took led back to an executed step
C2_Witness ==
    /\ pc = "done"
    /\ Len(trace) = N
    /\ \E k \in 1..Len(steps) :
          \E j \in Range(TakenList(steps[k])) : j <= steps[k].instruction

\* i appears in the ifTrue or ifFalse list of some instruction
InSomeBranchList(i) ==
    \E k \in 1..N :
        /\ instructions[k].condition.present
        /\ \/ \E j \in 1..Len(instructions[k].condition.ifTrue) :
                 instructions[k].condition.ifTrue[j] = i
           \/ \E j \in 1..Len(instructions[k].condition.ifFalse) :
                 instructions[k].condition.ifFalse[j] = i

\* the step in flight has no condition and its dispatch returns
UnconditionedStepEnds ==
    pc = "dispatch" /\ pc' = "dequeue" /\ ~Inst(stepIndex).condition.present

\* C3: an unconditioned step that is named in some branch list pushes nothing
\* on the queue; any other unconditioned step pushes i+1 exactly when i+1 < N.
C3_FallThrough ==
    [][UnconditionedStepEnds =>
        executionQueue' =
            IF InSomeBranchList(stepIndex) THEN executionQueue
            ELSE IF stepIndex + 1 < N THEN Append(executionQueue, stepIndex + 1)
            ELSE executionQueue]_vars

\* an unconditioned branch target that has a successor in the array has just
\* ended and the successor is not in the queue
C3_Witness ==
    /\ pc = "dequeue"
    /\ Len(steps) > 0
    /\ steps[Len(steps)].instruction = stepIndex
    /\ ~Inst(stepIndex).condition.present
    /\ InSomeBranchList(stepIndex)
    /\ stepIndex + 1 < N
    /\ stepIndex + 1 \notin Range(executionQueue)

\* C4: the k-th StepResult has stepNumber k, whatever the index it comes from.
C4_StepNumbers == \A k \in 1..Len(steps) : steps[k].stepNumber = k

\* a StepResult whose number is not its array position + 1
C4_Witness ==
    \E k \in 1..Len(steps) : steps[k].stepNumber = k /\ steps[k].instruction # k - 1

\* the condition of the step in flight is evaluated
ConditionedStepEnds == pc = "condition" /\ pc' = "dequeue"

C6_Verdict ==
    pc = "evaluated" =>
        LET normalized == ToLowerCase(Trim(response))
        IN  /\ conditionResult \in {"true", "false"}
            /\ conditionResult = "true" <=>
                  (Includes(normalized, TextTrue) /\ ~Includes(normalized, TextFalse))

\* an answer with neither word was resolved to false
C6_Witness ==
    /\ pc = "evaluated"
    /\ response = <<"m", "a", "y", "b", "e">>
    /\ conditionResult = "false"

\* a run on Example A has returned and the Oracle's answer to the condition was `answer`
ExampleAReturned(answer) == instructions = ExampleA /\ pc = "done" /\ response = answer

\* Example A ran the indices 0, 1, 2 as steps 1, 2, 3, took the true branch at
\* step 2 and never ran index 3
ExampleATrueBranch ==
    /\ trace = <<0, 1, 2>>
    /\ StepInstructions = <<0, 1, 2>>
    /\ [k \in 1..Len(steps) |-> steps[k].stepNumber] = <<1, 2, 3>>
    /\ steps[2].branchTaken = "true"
    /\ 3 \notin executedSteps

\* C7 as stated: on Example A, when the Oracle answers "yes" to the condition,
\* the run executes 0, 1, 2 with branchTaken "true" on step 2 and never runs 3.
C7_ExampleAYes == ExampleAReturned(TextYes) => ExampleATrueBranch

\* C7, amended: on Example A, when the Oracle answers "true" to the condition,
\* the run executes 0, 1, 2 with branchTaken "true" on step 2 and never runs 3.
C7_ExampleATrue == ExampleAReturned(TextTrue) => ExampleATrueBranch

\* Example A has run to its end on the answer "true"
C7_Witness == ExampleAReturned(TextTrue) /\ Len(steps) = 3

\* C8: when the last attempt of a step's dispatch fails the run halts, and
\* from then on nothing is dequeued, dispatched, evaluated or stored.
C8_HaltsOnFailure ==
    [][/\ (pc = "dispatch" /\ attempt' > DispatchRetryLimit) => pc' = "failed"
       /\ pc = "failed" => UNCHANGED vars]_vars

\* a dispatch failed for good while indices were still waiting in the queue
\* and earlier steps had been stored
C8_Witness ==
    /\ pc = "failed"
    /\ output = Threw("dispatch")
    /\ executionQueue # <<>>
    /\ Len(steps) > 0
    /\ Len(steps) = Len(trace) - 1

\* C9 as stated: when the run halts because the Oracle or Gateway call of a
\* step (an LLM or endpoint step, or the step's condition) failed, the errors
\* list holds an entry with that step's stepNumber and stepIndex.
C9_ErrorRecorded ==
    (/\ pc = "failed"
     /\ output.error \in {"dispatch", "condition"}
     /\ Inst(stepIndex).type \in {"llm", "endpoint"})
    => \E k \in 1..Len(currentResult.errors) :
          /\ currentResult.errors[k].stepNumber = stepNumber
          /\ currentResult.errors[k].stepIndex = stepIndex
          /\ currentResult.errors[k].errorType # ""

\* C10 as stated, in the case it singles out: when the run halts because the
\* evaluation of a step's own condition failed, the result built so far holds
\* the StepResult of that step, whose dispatch had succeeded.
C10_StepResultRetained ==
    (pc = "failed" /\ output.error = "condition" /\ stepResult # NoStepResult)
    => \E k \in 1..Len(steps) : steps[k].stepNumber = stepResult.stepNumber

(***************************************************************************)
(* index.ts: fetch, the HTTP entry, and the head of run() (lines 93-251).  *)
(* A request is its path, whether the body has a context, its count, its   *)
(* instructions array (empty when the body has none), whether the body     *)
(* has the legacy firstInstruction/secondInstruction pair, and whether the *)
(* platform's create will fail.                                            *)
(***************************************************************************)
\* line 502: body.count > 20
MaxBatchCount == 20

\* lines 125, 510-512, 586-588: instructions && instructions.length > 0
hasInstructions(body) == Len(body.instructions) > 0

\* lines 124-129: the instructions run() works on
rawInstructions(payload) ==
    IF hasInstructions(payload) THEN payload.instructions
    ELSE IF payload.legacy THEN <<LLMInstruction(NoCondition), LLMInstruction(NoCondition)>>
    ELSE <<>>

\* a bug: only the upper bound is checked
offendingAboveOnly(list, len) == SelectSeq(list, LAMBDA idx : idx >= len)

\* lines 609-618, 621-630: the indices of one branch list that are out of bounds
offending(list, len) == SelectSeq(list, LAMBDA idx : outOfBounds(idx, len))

\* lines 605-632: what the scan reports about the instruction at index i, in
\* the order in which it looks
violationsAt(insts, i) ==
    LET cond == insts[i + 1].condition
        report(list, branch) ==
            [k \in 1..Len(list) |-> [instruction |-> i, branch |-> branch, index |-> list[k]]]
    IN  IF cond.present
        THEN report(offending(cond.ifTrue, Len(insts)), "ifTrue")
             \o report(offending(cond.ifFalse, Len(insts)), "ifFalse")
        ELSE <<>>

\* lines 604-633: the scan `for (let i = 0; i < body.instructions.length; i++)`
RECURSIVE violationsFrom(_, _)
violationsFrom(insts, i) ==
    IF i >= Len(insts) THEN <<>>
    ELSE violationsAt(insts, i) \o violationsFrom(insts, i + 1)

\* lines 603-634: the scan returns at the first index out of bounds
violations(insts) == violationsFrom(insts, 0)

BadRequest(error) == [status |-> 400, error |-> error]
OutOfBoundsResponse(v) ==
    [status |-> 400, error |-> "out of bounds", instruction |-> v.instruction,
     branch |-> v.branch, index |-> v.index]
ServerError == [status |-> 500, error |-> "create"]
Started == [status |-> 200, error |-> ""]
NotStarted == [status |-> "none", error |-> "", result |-> <<>>]

\* the arrays a request carries: one conditioned instruction whose lists are
\* empty or one index, in range or just outside
EntryConditionPrograms ==
    UNION {UNION {{[Plain(n) EXCEPT ![p] = LLMInstruction(Condition(0, t, f))]
                   : t \in ShortLists(-1..n), f \in ShortLists(-1..n)}
                  : p \in 1..n}
           : n \in 1..(MaxN - 1)}

\* a structured instruction without a field its variant requires, first and
\* after an LLM step
MalformedPrograms ==
    {<<RouterInstruction(Undefined, FALSE, NoCondition)>>,
     <<LLMInstruction(NoCondition), RouterInstruction(Undefined, FALSE, NoCondition)>>}

EntryPrograms ==
    EntryConditionPrograms \cup MalformedPrograms
    \cup {p \in EvaluateAfterPrograms : Len(p) = 1} \cup {ExampleA, ConditionalExample}

Requests ==
    {[path |-> "/", context |-> c, count |-> 0, instructions |-> i,
      legacy |-> l, createFails |-> x]
     : c \in BOOLEAN, i \in EntryPrograms \cup {<<>>}, l \in BOOLEAN, x \in BOOLEAN}
    \cup {[path |-> "/batch", context |-> c, count |-> n, instructions |-> i,
           legacy |-> FALSE, createFails |-> x]
          : c \in BOOLEAN, n \in {0, 1, MaxBatchCount, MaxBatchCount + 1},
            i \in EntryPrograms \cup {<<>>}, x \in BOOLEAN}
    \cup {[path |-> "run", context |-> TRUE, count |-> 0, instructions |-> i,
           legacy |-> l, createFails |-> FALSE]
          : i \in EntryPrograms \cup {<<>>}, l \in BOOLEAN}

InitEntry ==
    /\ request \in {r \in Requests : r.legacy => r.instructions = <<>>}
    /\ httpResponse = NoResponse
    /\ instances = 0
    /\ pc = "request"
    /\ instructions = <<>>
    /\ branchTargetSteps = {}
    /\ executionQueue = <<>>
    /\ executedSteps = {}
    /\ currentResult = [steps |-> <<>>, finalizedAt |-> FALSE, errors |-> <<>>,
                        logs |-> <<>>]
    /\ stepIndex = -1
    /\ stepNumber = 0
    /\ stepResult = NoStepResult
    /\ evaluated = NothingEvaluated
    /\ conditionResult = "undefined"
    /\ attempt = 0
    /\ response = <<>>
    /\ output = NotStarted
    /\ trace = <<>>
    /\ NoHandler

\* the handler returns a Response without creating an instance
Respond(resp) ==
    /\ httpResponse' = resp
    /\ pc' = "responded"
    /\ UNCHANGED <<handlerVars, request, instances, instructions, branchTargetSteps,
                   executionQueue, executedSteps, currentResult, stepIndex, stepNumber,
                   stepResult, evaluated, conditionResult, attempt, response, output,
                   trace>>

\* lines 93-251: run() on the payload, up to the while loop
StartRun(payload) ==
    /\ instructions' = rawInstructions(payload)
    /\ IF instructions' = <<>>
       THEN /\ pc' = "failed"
            /\ output' = Threw("no instructions")
            /\ UNCHANGED <<branchTargetSteps, executionQueue, currentResult>>
       ELSE /\ pc' = "dequeue"
            /\ output' = Running
            /\ branchTargetSteps' = branchTargets(instructions')
            /\ executionQueue' = <<0>>
            /\ currentResult' = addLog(currentResult, <<"info">>, 0)
    /\ UNCHANGED <<handlerVars, request, executedSteps, stepIndex, stepNumber, stepResult,
                   evaluated, conditionResult, attempt, response, trace>>

\* lines 570-671: POST /
PostRoot ==
    /\ pc = "request"
    /\ request.path = "/"
    /\ IF ~request.context
       THEN Respond(BadRequest("context"))
       ELSE IF ~hasInstructions(request) /\ ~request.legacy
       THEN Respond(BadRequest("instructions"))
       ELSE IF hasInstructions(request) /\ violations(request.instructions) # <<>>
       THEN Respond(OutOfBoundsResponse(Head(violations(request.instructions))))
       ELSE IF request.createFails
       THEN Respond(ServerError)
       ELSE /\ instances' = instances + 1
            /\ httpResponse' = Started
            /\ StartRun(request)

\* lines 485-567: POST /batch; the instances are created from one payload and
\* run apart from each other, the run followed here is any one of them
PostBatch ==
    /\ pc = "request"
    /\ request.path = "/batch"
    /\ IF ~request.context
       THEN Respond(BadRequest("context"))
       ELSE IF request.count < 1 \/ request.count > MaxBatchCount
       THEN Respond(BadRequest("count"))
       ELSE IF ~hasInstructions(request)
       THEN Respond(BadRequest("instructions"))
       ELSE IF request.createFails
       THEN Respond(ServerError)
       ELSE /\ instances' = instances + request.count
            /\ httpResponse' = Started
            /\ StartRun(request)

\* a run started with a payload, not through fetch
RunDirect ==
    /\ pc = "request"
    /\ request.path = "run"
    /\ UNCHANGED <<httpResponse, instances>>
    /\ StartRun(request)

NextEntry ==
    \/ PostRoot
    \/ PostBatch
    \/ RunDirect
    \/ Next

SpecEntry == InitEntry /\ [][NextEntry]_vars

\* some ifTrue or ifFalse of the array names an index outside 0..N-1
HasOutOfBounds(insts) ==
    \E k \in 1..Len(insts) :
        /\ insts[k].condition.present
        /\ \E idx \in Range(insts[k].condition.ifTrue) \cup Range(insts[k].condition.ifFalse) :
              idx < 0 \/ idx > Len(insts) - 1

\* C11 as stated: on every entry path (POST /, POST /batch, a run started with
\* a payload), a workflow whose instructions contain a branch index outside
\* 0..N-1 has no step executed: no index is ever dispatched.
C11_OutOfBoundsRefused ==
    (pc # "request" /\ HasOutOfBounds(request.instructions)) => trace = <<>>

LacksRequiredField(insts) ==
    \E k \in 1..Len(insts) : insts[k].type = "router" /\ insts[k].options = Undefined

\* C13 as stated: an array with a structured instruction that lacks a field
\* its variant requires never has a step of its run completed: the workflow
\* fails before, and not when the offending step is dispatched after others.
C13_MalformedFailsFast ==
    (pc # "request" /\ LacksRequiredField(request.instructions)) => steps = <<>>

(***************************************************************************)
(* More properties of the sequential scheduler.                            *)
(***************************************************************************)
\* C14 as stated: the run fails with "step n not found" only when no step
\* numbered n has been executed; n may be the number of the conditioned step
\* itself, whose dispatch has returned when its condition is looked at.
C14_SubjectOfOwnNumber ==
    (pc = "failed" /\ output.error = "step not found")
    => LET n == Inst(stepIndex).condition.evaluateAfterStep
       IN  /\ n # stepResult.stepNumber
           /\ \A k \in 1..Len(steps) : steps[k].stepNumber # n

\* the branch list that the verdict of the step in flight selects
SelectedList ==
    IF conditionResult' = "true" THEN Inst(stepIndex).condition.ifTrue
    ELSE Inst(stepIndex).condition.ifFalse

\* C15 as stated: when the branch list selected by the verdict is empty the
\* conditioned step enqueues nothing, so index+1 does not run because of it.
C15_EmptyListEnqueuesNothing ==
    [][(ConditionedStepEnds /\ SelectedList = <<>>)
       => executionQueue' = executionQueue]_vars

\* the step in flight ends and pushes index+1 because it has no list to
\* follow: it has no condition, or the list its verdict selects is empty
FallsThrough ==
    /\ \/ UnconditionedStepEnds
       \/ ConditionedStepEnds /\ SelectedList = <<>>
    /\ executionQueue' = Append(executionQueue, stepIndex + 1)

MaxStored == 3
\* longest collectFromSteps drawn
MaxCollect == 3

Digits == <<"0", "1", "2", "3", "4", "5", "6", "7", "8", "9">>

\* `${n}` for a number n >= 0
RECURSIVE NumberToString(_)
NumberToString(n) ==
    IF n < 10 THEN <<Digits[n + 1]>>
    ELSE NumberToString(n \div 10) \o <<Digits[(n % 10) + 1]>>

\* Array.prototype.join
RECURSIVE Join(_, _)
Join(texts, separator) ==
    IF texts = <<>> THEN <<>>
    ELSE IF Len(texts) = 1 THEN texts[1]
    ELSE texts[1] \o separator \o Join(Tail(texts), separator)

\* lines 27-29: currentResult.steps.find(s => s.stepNumber === stepNum)
findStep(stored, stepNum) ==
    LET k == CHOOSE j \in 1..Len(stored) :
                 /\ stored[j].stepNumber = stepNum
                 /\ \A i \in 1..(j - 1) : stored[i].stepNumber # stepNum
    IN  stored[k]

\* a bug: the results are gathered in the order in which the steps ran
collectedResultsInStepOrder(inst, stored) ==
    SelectSeq(stored, LAMBDA s : \E j \in 1..Len(inst.collectFromSteps) :
                                     inst.collectFromSteps[j] = s.stepNumber)

\* lines 26-39: the StepResults found, one per requested number, in request order
collectedResults(inst, stored) ==
    LET found == SelectSeq(inst.collectFromSteps,
                           LAMBDA n : \E k \in 1..Len(stored) : stored[k].stepNumber = n)
    IN  [j \in 1..Len(found) |-> findStep(stored, found[j])]

\* lines 42-64: isComplete; `verdict` is what evaluateCondition returned
isComplete(inst, stored, verdict) ==
    IF inst.completionCheck.mode = "deterministic"
    THEN missingSteps(inst, stored) = <<>>
    ELSE IF inst.completionCheck.mode = "llm" /\ inst.completionCheck.expression
    THEN verdict
    ELSE FALSE

\* lines 67-70: the message of the error thrown
incompleteMessage(missing) ==
    <<"Thread incomplete: missing results from steps ">>
    \o Join([k \in 1..Len(missing) |-> NumberToString(missing[k])], <<",", " ">>)
    \o <<". Ensure these steps execute before this thread step.">>

\* lines 97-100: `${idx + 1}. [Step ${r.stepNumber}] ${r.result}`
numberedEntry(idx, r) ==
    NumberToString(idx + 1) \o <<".", " ", "[", "S", "t", "e", "p", " ">>
    \o NumberToString(r.stepNumber) \o <<"]", " ">> \o r.result

\* lines 93-94
markdownEntry(r) ==
    <<"## Step ">> \o NumberToString(r.stepNumber) \o <<"\n", "**Instruction:** ">>
    \o r.instruction \o <<"\n", "\n", "**Result:**", "\n">> \o r.result

\* lines 73-103: the result text for an output format; the text that
\* JSON.stringify makes of an object is kept as one piece naming the object
formatResults(inst, collected) ==
    IF inst.outputFormat = "numbered"
    THEN Join([j \in 1..Len(collected) |-> numberedEntry(j - 1, collected[j])],
              <<"\n", "\n">>)
    ELSE IF inst.outputFormat = "markdown"
    THEN Join([j \in 1..Len(collected) |-> markdownEntry(collected[j])],
              <<"\n", "\n", "---", "\n", "\n">>)
    ELSE <<[json |-> [collectedSteps |-> inst.collectFromSteps,
                      results |-> [j \in 1..Len(collected) |->
                                      [step |-> collected[j].stepNumber,
                                       instruction |-> collected[j].instruction,
                                       result |-> collected[j].result]]]]>>

HandlerReturned(result) == [type |-> "returned", result |-> result, error |-> <<>>]
HandlerThrew(error) == [type |-> "threw", result |-> <<>>, error |-> error]

\* lines 10-106 once the completeness check, if one is made, has answered
threadStep(inst, stored, verdict) ==
    IF ~isComplete(inst, stored, verdict) /\ missingSteps(inst, stored) # <<>>
    THEN HandlerThrew(incompleteMessage(missingSteps(inst, stored)))
    ELSE HandlerReturned(formatResults(inst, collectedResults(inst, stored)))

\* the k-th StepResult of a run has stepNumber k; its texts are named after it
SampleStep(k) ==
    [stepNumber |-> k, instruction |-> <<"i">> \o NumberToString(k),
     result |-> <<"<", UpperChars[k], ">">>]

ThreadCalls ==
    {[type |-> "thread", collectFromSteps |-> c, outputFormat |-> f,
      completionCheck |-> [mode |-> m[1], expression |-> m[2]]]
     : c \in UNION {[1..k -> 1..MaxStored] : k \in 0..MaxCollect},
       f \in {"json", "markdown", "numbered"},
       m \in {<<"deterministic", FALSE>>, <<"llm", TRUE>>, <<"llm", FALSE>>}}

\* everything but the handler's call is at rest
SchedulerAtRest ==
    /\ instructions = <<>>
    /\ branchTargetSteps = {}
    /\ executionQueue = <<>>
    /\ executedSteps = {}
    /\ currentResult = [steps |-> <<>>, finalizedAt |-> FALSE, errors |-> <<>>,
                        logs |-> <<>>]
    /\ stepIndex = -1
    /\ stepNumber = 0
    /\ stepResult = NoStepResult
    /\ evaluated = NothingEvaluated
    /\ conditionResult = "undefined"
    /\ attempt = 0
    /\ response = <<>>
    /\ output = NotStarted
    /\ trace = <<>>
    /\ NoEntry

InitThread ==
    /\ instruction \in ThreadCalls
    /\ ctx \in {[steps |-> [k \in 1..n |-> SampleStep(k)]] : n \in 0..MaxStored}
    /\ handled = NoCall
    /\ pc = "call"
    /\ SchedulerAtRest

\* lines 10-106; in llm mode with an expression the Oracle is asked (line 56)
\* and its call returns an answer or throws
ThreadStep ==
    /\ pc = "call"
    /\ instruction.type = "thread"
    /\ \/ /\ instruction.completionCheck.mode = "llm"
          /\ instruction.completionCheck.expression
          /\ \/ \E r \in OracleResponses :
                   /\ response' = r
                   /\ handled' = threadStep(instruction, ctx.steps, evaluateCondition(r))
             \/ /\ handled' = HandlerThrew(<<"Oracle">>)
                /\ UNCHANGED response
       \/ /\ ~(instruction.completionCheck.mode = "llm"
               /\ instruction.completionCheck.expression)
          /\ handled' = threadStep(instruction, ctx.steps, FALSE)
          /\ UNCHANGED response
    /\ pc' = "returned"
    /\ UNCHANGED <<entryVars, instruction, ctx, instructions, branchTargetSteps,
                   executionQueue, executedSteps, currentResult, stepIndex, stepNumber,
                   stepResult, evaluated, conditionResult, attempt, output, trace>>

NextThread == ThreadStep

SpecThread == InitThread /\ [][NextThread]_vars

\* the step numbers that have a StepResult in the handler's context
StoredNumbers == {ctx.steps[k].stepNumber : k \in 1..Len(ctx.steps)}

\* C17: in deterministic mode the Thread step throws when a requested step
\* number has no StepResult, and the message lists those numbers, each one
\* requested and without a StepResult and none of them left out; it returns
\* when every requested number has a StepResult.
C17_DeterministicThread ==
    (pc = "returned" /\ instruction.completionCheck.mode = "deterministic")
    => LET requested == instruction.collectFromSteps
           absent == {k \in 1..Len(requested) : requested[k] \notin StoredNumbers}
       IN  IF absent = {}
           THEN handled.type = "returned"
           ELSE /\ handled.type = "threw"
                /\ \E named \in UNION {[1..n -> 1..MaxStored] : n \in 1..Len(requested)} :
                      /\ handled.error = incompleteMessage(named)
                      /\ Len(named) = Cardinality(absent)
                      /\ \A j \in 1..Len(named) :
                            /\ named[j] \notin StoredNumbers
                            /\ \E k \in absent : requested[k] = named[j]
                      /\ \A k \in absent : \E j \in 1..Len(named) : named[j] = requested[k]

\* collectFromSteps [1, 2, 3] with only the steps 1 and 2 stored: the error
\* names step 3
C17_Witness ==
    /\ pc = "returned"
    /\ instruction.completionCheck.mode = "deterministic"
    /\ instruction.collectFromSteps = <<1, 2, 3>>
    /\ StoredNumbers = {1, 2}
    /\ handled = HandlerThrew(incompleteMessage(<<3>>))

\* the entries of a numbered output, read off the text from the left: entry i
\* starts with "i. [Step s] r" for the i-th collected step, and is followed
\* by the end of the text or by one blank line and entry i+1
RECURSIVE IsNumberedList(_, _, _)
IsNumberedList(text, i, collected) ==
    IF i > Len(collected) THEN text = <<>> /\ i = 1
    ELSE LET entry == NumberToString(i) \o <<".", " ", "[", "S", "t", "e", "p", " ">>
                      \o NumberToString(collected[i].stepNumber) \o <<"]", " ">>
                      \o collected[i].result
             rest == SubSeq(text, Len(entry) + 1, Len(text))
         IN  /\ Len(text) >= Len(entry)
             /\ SubSeq(text, 1, Len(entry)) = entry
             /\ IF i = Len(collected) THEN rest = <<>>
                ELSE /\ Len(rest) >= 2
                     /\ rest[1] = "\n" /\ rest[2] = "\n"
                     /\ IsNumberedList(SubSeq(rest, 3, Len(rest)), i + 1, collected)

\* spec.md, Example B: the steps 1 and 2 gave <A> and <B>, the Thread collects [1, 2]
ExampleBText ==
    <<"1", ".", " ", "[", "S", "t", "e", "p", " ", "1", "]", " ", "<", "A", ">",
      "\n", "\n",
      "2", ".", " ", "[", "S", "t", "e", "p", " ", "2", "]", " ", "<", "B", ">">>

\* C18: a Thread step with outputFormat "numbered" returns the results of the
\* requested steps that exist, in collectFromSteps order, the i-th as
\* "i. [Step s] r", separated by one blank line; on Example B the text is
\* "1. [Step 1] <A>", a blank line, "2. [Step 2] <B>".
C18_NumberedOutput ==
    (pc = "returned" /\ instruction.outputFormat = "numbered" /\ handled.type = "returned")
    => LET requested == instruction.collectFromSteps
           present == SelectSeq(requested, LAMBDA n : n \in StoredNumbers)
           collected == [j \in 1..Len(present) |-> ctx.steps[present[j]]]
       IN  /\ IsNumberedList(handled.result, 1, collected)
           /\ (requested = <<1, 2>> /\ StoredNumbers = {1, 2})
                 => handled.result = ExampleBText

\* a numbered output of two steps requested against the order in which they ran
C18_Witness ==
    /\ pc = "returned"
    /\ instruction.outputFormat = "numbered"
    /\ instruction.collectFromSteps = <<2, 1>>
    /\ handled.type = "returned"
    /\ Len(handled.result) = Len(ExampleBText)
    /\ handled.result # ExampleBText

(***************************************************************************)
(* steps/router-step.ts: executeRouterStep called on its own.  An option   *)
(* is named by its id; a RouterInstruction without defaultOption has the   *)
(* empty text there (`if (instruction.defaultOption)` takes both alike).   *)
(***************************************************************************)
\* most options a router declares
MaxOptions == 2

\* line 84: .replace(/['"]/g, "")
StripQuotes(s) == SelectSeq(s, LAMBDA c : c \notin {"'", "\""})

\* lines 81-84: cleanedSelection
cleanedSelection(selectedOptionId) == StripQuotes(ToLowerCase(Trim(selectedOptionId)))

\* Array.prototype.find over the options: of the positions that pass the
\* test, the first; 0 when there is none
findOption(passing) ==
    IF passing = {} THEN 0
    ELSE CHOOSE k \in passing : \A j \in passing : k <= j

\* lines 87-89
exactMatch(ids, cleaned) ==
    findOption({k \in 1..Len(ids) : ToLowerCase(ids[k]) = cleaned})

\* lines 98-102
partialMatch(ids, cleaned) ==
    findOption({k \in 1..Len(ids) : \/ Includes(cleaned, ToLowerCase(ids[k]))
                                    \/ Includes(ToLowerCase(ids[k]), cleaned)})

\* lines 112-116
defaultMatch(ids, defaultOption) ==
    IF defaultOption # <<>>
    THEN findOption({k \in 1..Len(ids) : ids[k] = defaultOption})
    ELSE 0

\* a bug: the configured default is tried before the partial match
selectOptionDefaultFirst(ids, defaultOption, cleaned) ==
    IF exactMatch(ids, cleaned) # 0 THEN exactMatch(ids, cleaned)
    ELSE IF defaultMatch(ids, defaultOption) # 0 THEN defaultMatch(ids, defaultOption)
    ELSE IF partialMatch(ids, cleaned) # 0 THEN partialMatch(ids, cleaned)
    ELSE IF Len(ids) > 0 THEN 1
    ELSE 0

\* lines 86-120: the position of selectedOption, 0 when it stays undefined
selectOption(ids, defaultOption, cleaned) ==
    IF exactMatch(ids, cleaned) # 0 THEN exactMatch(ids, cleaned)
    ELSE IF partialMatch(ids, cleaned) # 0 THEN partialMatch(ids, cleaned)
    ELSE IF defaultMatch(ids, defaultOption) # 0 THEN defaultMatch(ids, defaultOption)
    ELSE IF Len(ids) > 0 THEN 1
    ELSE 0

\* lines 92-111: the warnings logged on the way to the selection
selectionLogs(ids, cleaned) ==
    IF exactMatch(ids, cleaned) # 0 THEN <<>>
    ELSE IF partialMatch(ids, cleaned) # 0 THEN <<"warn">>
    ELSE <<"warn", "warn">>

OptionIds == {<<"a">>, <<"a", "b">>, <<"B">>, <<"c">>}

RouterCalls ==
    {[type |-> "router", options |-> ids, defaultOption |-> d]
     : ids \in UNION {[1..k -> OptionIds] : k \in 0..MaxOptions},
       d \in OptionIds \cup {<<>>, <<"b">>, <<"z">>}}

\* what the Oracle may answer to the selection prompt
RouterAnswers ==
    {<<>>, <<" ">>, <<"'", "'">>, <<"a">>, <<"A">>, <<"a", "b">>, <<"b">>, <<"c">>,
     <<"\"", "a", "b", "\"">>, <<" ", "C", "\n">>, <<"x">>, <<"z">>,
     <<"a", "b", "c">>, <<"t", "h", "e", " ", "c">>, <<"\"", " ", "b", " ", "\"">>}

\* what a router call leaves: the position of the option selected and of the
\* option whose endpoint was called (0: none), the errorTypes recorded and
\* the levels logged
RouterOutcome(type, selected, invoked, errorTypes, logs) ==
    [type |-> type, selected |-> selected, invoked |-> invoked,
     errorTypes |-> errorTypes, logs |-> logs]

InitRouter ==
    /\ instruction \in RouterCalls
    /\ ctx = [steps |-> <<>>]
    /\ handled = NoCall
    /\ pc = "call"
    /\ SchedulerAtRest

\* lines 11-78: the Oracle's call throws
RouterOracleThrows ==
    /\ pc = "call"
    /\ instruction.type = "router"
    /\ handled' = RouterOutcome("threw", 0, 0, <<"router-llm">>, <<"info", "debug", "error">>)
    /\ pc' = "returned"
    /\ UNCHANGED <<entryVars, instruction, ctx, instructions, branchTargetSteps,
                   executionQueue, executedSteps, currentResult, stepIndex, stepNumber,
                   stepResult, evaluated, conditionResult, attempt, response, output, trace>>

\* lines 11-251: the Oracle answers; an option is selected and its endpoint is
\* called, which returns, fails, or returns what JSON.parse refuses
RouterStep ==
    /\ pc = "call"
    /\ instruction.type = "router"
    /\ \E r \in RouterAnswers :
          LET cleaned == cleanedSelection(r)
              selected == selectOption(instruction.options, instruction.defaultOption, cleaned)
              logs == <<"info", "debug", "info">> \o selectionLogs(instruction.options, cleaned)
          IN  /\ response' = r
              /\ IF selected = 0
                 THEN handled' = RouterOutcome("threw", 0, 0, <<"router-selection">>,
                                               logs \o <<"error">>)
                 ELSE \/ handled' = RouterOutcome("returned", selected, selected, <<>>,
                                                  logs \o <<"info", "info">>)
                      \/ handled' = RouterOutcome("threw", selected, selected,
                                                  <<"router-endpoint">>,
                                                  logs \o <<"info", "error">>)
                      \/ handled' = RouterOutcome("threw", selected, selected, <<>>,
                                                  logs \o <<"info", "info">>)
    /\ pc' = "returned"
    /\ UNCHANGED <<entryVars, instruction, ctx, instructions, branchTargetSteps,
                   executionQueue, executedSteps, currentResult, stepIndex, stepNumber,
                   stepResult, evaluated, conditionResult, attempt, output, trace>>

NextRouter ==
    \/ RouterOracleThrows
    \/ RouterStep

SpecRouter == InitRouter /\ [][NextRouter]_vars

\* the router was handed an answer by the Oracle
RouterAnswered == pc = "returned" /\ handled.errorTypes # <<"router-llm">>

\* the answer as the claims read it: trimmed, lowercased, without quotes
NormalizedAnswer == StripQuotes(ToLowerCase(Trim(response)))

\* the declared option at position k, by its id
OptionId(k) == instruction.options[k]

\* position k is the first of a set of positions
IsFirst(k, positions) == k \in positions /\ \A j \in positions : ~(j < k)

C20_DefaultWhenUndecided ==
    (/\ RouterAnswered
     /\ NormalizedAnswer = <<>>
     /\ \E k \in 1..Len(instruction.options) :
           instruction.options[k] = instruction.defaultOption)
    => /\ handled.invoked # 0
       /\ instruction.options[handled.invoked] = instruction.defaultOption

(***************************************************************************)
(* steps/agent-step.ts: executeAgentStep called on its own.  A tool is     *)
(* named by its id.                                                        *)
(***************************************************************************)
\* line 9: NO_TOOL_ID
TextNone == <<"n", "o", "n", "e">>
TextNo == <<"n", "o">>
TextDontNeed == <<"d", "o", "n", "'", "t", " ", "n", "e", "e", "d">>
TextNoTool == <<"n", "o", " ", "t", "o", "o", "l">>
TextExistingKnowledge ==
    <<"e", "x", "i", "s", "t", "i", "n", "g", " ", "k", "n", "o", "w", "l", "e", "d", "g", "e">>

\* line 91: cleanedDecision
cleanedDecision(decisionResponse) == StripQuotes(ToLowerCase(Trim(decisionResponse)))

\* a bug: an answer that names no tool counts as the no-tool choice
needsNoToolUnlessNamed(cleaned, ids) ==
    ~\E k \in 1..Len(ids) : ToLowerCase(ids[k]) = cleaned

\* lines 94-100: needsNoTool
needsNoTool(cleaned, ids) ==
    \/ cleaned = TextNone
    \/ cleaned = TextNo
    \/ Includes(cleaned, TextDontNeed)
    \/ Includes(cleaned, TextNoTool)
    \/ Includes(cleaned, TextExistingKnowledge)

\* lines 171-198: the position of selectedTool, 0 when it stays undefined
selectTool(ids, cleaned) ==
    IF exactMatch(ids, cleaned) # 0 THEN exactMatch(ids, cleaned)
    ELSE IF partialMatch(ids, cleaned) # 0 THEN partialMatch(ids, cleaned)
    ELSE IF Len(ids) > 0 THEN 1
    ELSE 0

\* lines 112-123, 155-166, 312-325: the text JSON.stringify makes of the
\* result object, kept as one piece naming the object
agentResult(selectedTool, data) ==
    <<[json |-> [agentDecision |-> [selectedTool |-> selectedTool], data |-> data]]>>

\* what an agent call leaves: the text returned, how many times the Oracle
\* was asked, the positions of the tools whose endpoint was called, the
\* errorTypes recorded
AgentOutcome(type, result, oracleCalls, invoked, errorTypes) ==
    [type |-> type, result |-> result, oracleCalls |-> oracleCalls,
     invoked |-> invoked, errorTypes |-> errorTypes]

AgentCalls ==
    {[type |-> "agent", availableTools |-> ids, fallbackBehavior |-> fb]
     : ids \in UNION {[1..k -> OptionIds] : k \in 0..MaxOptions},
       fb \in {"skip", "llm", "undefined"}}

\* what the Oracle may answer to the decision prompt
AgentAnswers ==
    {TextNone, <<"N", "o", "n", "e">>, <<"\"", "n", "o", "n", "e", "\"">>, TextNo,
     <<" ">> \o TextNoTool \o <<"\n">>, <<"I", " ">> \o TextDontNeed,
     <<>>, <<"a">>, <<"a", "b">>, <<"c">>, <<"x">>, <<"'", "B", "'">>}

\* what the Oracle and an endpoint may give back
SampleData == <<"d">>

InitAgent ==
    /\ instruction \in AgentCalls
    /\ ctx \in {[previousResult |-> p] : p \in {<<"p">>, <<>>}}
    /\ handled = NoCall
    /\ pc = "call"
    /\ SchedulerAtRest

\* lines 15-88: the Oracle's call for the decision throws
AgentOracleThrows ==
    /\ pc = "call"
    /\ instruction.type = "agent"
    /\ handled' = AgentOutcome("threw", <<>>, 1, <<>>, <<"agent-llm">>)
    /\ pc' = "returned"
    /\ UNCHANGED <<entryVars, instruction, ctx, instructions, branchTargetSteps,
                   executionQueue, executedSteps, currentResult, stepIndex, stepNumber,
                   stepResult, evaluated, conditionResult, attempt, response, output, trace>>

\* lines 15-328: the Oracle answers the decision prompt
AgentStep ==
    /\ pc = "call"
    /\ instruction.type = "agent"
    /\ \E r \in AgentAnswers :
          LET cleaned == cleanedDecision(r)
              ids == instruction.availableTools
              selected == selectTool(ids, cleaned)
          IN  /\ response' = r
              /\ IF needsNoTool(cleaned, ids)
                 THEN IF instruction.fallbackBehavior = "skip"
                      THEN handled' = AgentOutcome("returned",
                                                   agentResult(0, ctx.previousResult),
                                                   1, <<>>, <<>>)
                      ELSE \/ handled' = AgentOutcome("returned", agentResult(0, SampleData),
                                                      2, <<>>, <<>>)
                           \/ handled' = AgentOutcome("threw", <<>>, 2, <<>>,
                                                      <<"agent-llm-fallback">>)
                 ELSE IF selected = 0
                 THEN handled' = AgentOutcome("threw", <<>>, 1, <<>>, <<"agent-no-tools">>)
                 ELSE \/ handled' = AgentOutcome("returned", agentResult(selected, SampleData),
                                                 1, <<selected>>, <<>>)
                      \/ handled' = AgentOutcome("threw", <<>>, 1, <<selected>>,
                                                 <<"agent-endpoint">>)
                      \/ handled' = AgentOutcome("threw", <<>>, 1, <<selected>>, <<>>)
    /\ pc' = "returned"
    /\ UNCHANGED <<entryVars, instruction, ctx, instructions, branchTargetSteps,
                   executionQueue, executedSteps, currentResult, stepIndex, stepNumber,
                   stepResult, evaluated, conditionResult, attempt, output, trace>>

NextAgent ==
    \/ AgentOracleThrows
    \/ AgentStep

SpecAgent == InitAgent /\ [][NextAgent]_vars

\* the Oracle answered the decision prompt with the no-tool choice
DecidedNoTool ==
    /\ pc = "returned"
    /\ handled.errorTypes # <<"agent-llm">>
    /\ LET answer == StripQuotes(ToLowerCase(Trim(response)))
       IN  \/ answer \in {TextNone, TextNo}
           \/ Includes(answer, TextDontNeed)
           \/ Includes(answer, TextNoTool)
           \/ Includes(answer, TextExistingKnowledge)

\* the Oracle answered the decision prompt with something else
DecidedTool ==
    pc = "returned" /\ handled.errorTypes # <<"agent-llm">> /\ ~DecidedNoTool

JValue(kind, text, number, flag, items, fields) ==
    [kind |-> kind, text |-> text, number |-> number, flag |-> flag, items |-> items,
     fields |-> fields]
JString(text) == JValue("string", text, 0, FALSE, <<>>, <<>>)
JNumber(n) == JValue("number", <<>>, n, FALSE, <<>>, <<>>)
JBoolean(b) == JValue("boolean", <<>>, 0, b, <<>>, <<>>)
JNull == JValue("null", <<>>, 0, FALSE, <<>>, <<>>)
JArray(items) == JValue("array", <<>>, 0, FALSE, items, <<>>)
JObject(fields) == JValue("object", <<>>, 0, FALSE, <<>>, fields)

\* JSON.stringify
RECURSIVE JsonStringify(_)
JsonStringify(v) ==
    CASE v.kind = "string" -> <<"\"">> \o v.text \o <<"\"">>
      [] v.kind = "number" -> NumberToString(v.number)
      [] v.kind = "boolean" -> IF v.flag THEN TextTrue ELSE TextFalse
      [] v.kind = "null" -> <<"n", "u", "l", "l">>
      [] v.kind = "array" ->
            <<"[">> \o Join([k \in 1..Len(v.items) |-> JsonStringify(v.items[k])], <<",">>)
            \o <<"]">>
      [] v.kind = "object" ->
            <<"{">>
            \o Join([k \in 1..Len(v.fields) |->
                        <<"\"">> \o v.fields[k].key \o <<"\"", ":">>
                        \o JsonStringify(v.fields[k].value)], <<",">>)
            \o <<"}">>

\* the bodies an API may give back through the Gateway
SampleBodies ==
    {JString(<<"o", "k">>), JString(<<>>), JString(<<"{", "}">>), JNumber(7), JNull,
     JBoolean(FALSE), JArray(<<JNumber(1), JString(<<"x">>)>>),
     JObject(<<[key |-> <<"a">>, value |-> JNumber(1)]>>), JObject(<<>>)}

\* what the fetch of the Gateway gives: the fetch itself throws, or a
\* Response with its status and, when it is OK, its EndpointResponse or a
\* text that is not JSON
GatewayReplies ==
    {[transport |-> "failed", httpStatus |-> 0, json |-> FALSE, success |-> FALSE,
      status |-> 0, body |-> JNull]}
    \cup {[transport |-> "ok", httpStatus |-> h, json |-> FALSE, success |-> FALSE,
           status |-> 0, body |-> JNull] : h \in {200, 404, 500}}
    \cup {[transport |-> "ok", httpStatus |-> h, json |-> TRUE, success |-> s,
           status |-> st, body |-> b]
          : h \in {200, 500}, s \in BOOLEAN, st \in {200, 404}, b \in SampleBodies}

\* Response.ok
responseOk(reply) == reply.httpStatus >= 200 /\ reply.httpStatus <= 299

\* a bug: the success flag of the EndpointResponse is not looked at when
\* the API's status is 200
callEndpointByStatus(reply) ==
    IF reply.transport = "failed" THEN HandlerThrew(<<"fetch">>)
    ELSE IF ~responseOk(reply) THEN HandlerThrew(<<"Endpoint worker error">>)
    ELSE IF ~reply.json THEN HandlerThrew(<<"json">>)
    ELSE IF ~reply.success /\ reply.status # 200 THEN HandlerThrew(<<"API call failed">>)
    ELSE IF reply.body.kind = "string" THEN HandlerReturned(reply.body.text)
    ELSE HandlerReturned(JsonStringify(reply.body))

\* lines 8-54: callEndpoint
callEndpoint(reply) ==
    IF reply.transport = "failed" THEN HandlerThrew(<<"fetch">>)
    ELSE IF ~responseOk(reply) THEN HandlerThrew(<<"Endpoint worker error">>)
    ELSE IF ~reply.json THEN HandlerThrew(<<"json">>)
    ELSE IF ~reply.success THEN HandlerThrew(<<"API call failed">>)
    ELSE IF reply.body.kind = "string" THEN HandlerReturned(reply.body.text)
    ELSE HandlerReturned(JsonStringify(reply.body))

\* what an endpoint call leaves: what callEndpoint gave, the errorTypes
\* recorded and the levels logged
EndpointOutcome(called, errorTypes, logs) ==
    [type |-> called.type, result |-> called.result, error |-> called.error,
     errorTypes |-> errorTypes, logs |-> logs]

\* `retries` 0 stands for an instruction without retries
EndpointCalls == {[type |-> "endpoint", retries |-> r] : r \in {0, 1, 5}}

InitEndpoint ==
    /\ instruction \in EndpointCalls
    /\ ctx = [steps |-> <<>>]
    /\ handled = NoCall
    /\ pc = "call"
    /\ SchedulerAtRest

\* lines 60-101: executeEndpointStep; `response` keeps the Gateway's reply
EndpointStep ==
    /\ pc = "call"
    /\ instruction.type = "endpoint"
    /\ \E reply \in GatewayReplies :
          LET called == callEndpoint(reply)
          IN  /\ response' = reply
              /\ handled' = IF called.type = "returned"
                            THEN EndpointOutcome(called, <<>>, <<"info", "info">>)
                            ELSE EndpointOutcome(called, <<"endpoint">>, <<"info", "error">>)
    /\ pc' = "returned"
    /\ UNCHANGED <<entryVars, instruction, ctx, instructions, branchTargetSteps,
                   executionQueue, executedSteps, currentResult, stepIndex, stepNumber,
                   stepResult, evaluated, conditionResult, attempt, output, trace>>

NextEndpoint == EndpointStep

SpecEndpoint == InitEndpoint /\ [][NextEndpoint]_vars

\* the Gateway's reply carries an EndpointResponse with success true
GatewaySucceeded ==
    /\ response.transport = "ok"
    /\ response.httpStatus \in 200..299
    /\ response.json
    /\ response.success

\* C22: an Endpoint step throws, with an "endpoint" error recorded and no
\* result, whenever the Gateway call fails at transport level, returns a
\* non-OK HTTP response, or returns a body with success false, whatever the
\* status in that body; it returns only on success true, and then its result
\* is the body itself if it is a string and its JSON text otherwise.
C22_EndpointOutcome ==
    pc = "returned" =>
        IF GatewaySucceeded
        THEN /\ handled.type = "returned"
             /\ handled.errorTypes = <<>>
             /\ IF response.body.kind = "string"
                THEN handled.result = response.body.text
                ELSE handled.result = JsonStringify(response.body)
        ELSE /\ handled.type = "threw"
             /\ handled.result = <<>>
             /\ handled.errorTypes = <<"endpoint">>

\* the API answered 200 through a Gateway that answered 200, but the
\* EndpointResponse says success false: the step threw
C22_Witness ==
    /\ pc = "returned"
    /\ response.transport = "ok"
    /\ response.httpStatus = 200
    /\ response.json
    /\ ~response.success
    /\ response.status = 200
    /\ response.body = JString(<<"o", "k">>)
    /\ handled.type = "threw"

(***************************************************************************)
(* Runs of instruction arrays without conditions.                          *)
(***************************************************************************)
NoConditions == \A k \in 1..N : ~instructions[k].condition.present

\* C23: when no instruction has a condition and every dispatch succeeds, the
\* run executes the indices 0, 1, ..., N-1 in that order, each exactly once;
\* the step at index i is stored with stepNumber i + 1 and branchTaken
\* "sequential", and the run returns after index N-1.
C23_PlainRunInOrder ==
    NoConditions =>
        /\ trace = [k \in 1..Len(trace) |-> k - 1]
        /\ \A k \in 1..Len(steps) :
              /\ steps[k].instruction = k - 1
              /\ steps[k].stepNumber = k
              /\ steps[k].branchTaken = "sequential"
              /\ ~steps[k].conditionEvaluated
        /\ pc = "done" => Len(trace) = N /\ Len(steps) = N

C23_Witness ==
    /\ instructions = Plain(3)
    /\ pc = "done"
    /\ trace = <<0, 1, 2>>
    /\ Len(steps) = 3

(***************************************************************************)
(* Determinism of the scheduler: what a step of run() leaves is a function *)
(* of the state it starts in and of what the awaited call gave.            *)
(***************************************************************************)
\* the arrays the two runs are compared on: the two examples, a list of two
\* indices in descending order, an index listed twice, an index outside the
\* array, a condition on a step that is never stored, no condition at all
\* and an endpoint step before an LLM step
DeterminismPrograms ==
    {ExampleA, ConditionalExample, Plain(2),
     [Plain(3) EXCEPT ![1] = LLMInstruction(Condition(0, <<2, 1>>, <<1>>))],
     [Plain(2) EXCEPT ![1] = LLMInstruction(Condition(0, <<1, 1>>, <<>>))],
     [Plain(2) EXCEPT ![1] = LLMInstruction(Condition(0, <<2>>, <<1>>))],
     [Plain(2) EXCEPT ![1] = LLMInstruction(Condition(2, <<1>>, <<>>))],
     <<EndpointInstruction(NoCondition), LLMInstruction(NoCondition)>>}

InitDeterminism == Init /\ instructions \in DeterminismPrograms

SpecDeterminism == InitDeterminism /\ [][Next]_vars

\* what the environment gives during one step: nothing (the loop head), a
\* dispatch that throws or returns, a condition evaluation that throws, or
\* the Oracle's answer to a condition
Answers ==
    {[kind |-> k, text |-> <<>>]
     : k \in {"none", "dispatch threw", "dispatch returned", "condition threw"}}
    \cup {[kind |-> "oracle", text |-> r] : r \in OracleResponses}

\* the step took the answer a
AnswerWas(a) ==
    CASE a.kind = "none" -> pc = "dequeue"
      [] a.kind = "dispatch threw" -> pc = "dispatch" /\ attempt' = attempt + 1
      [] a.kind = "dispatch returned" -> pc = "dispatch" /\ attempt' = 0
      [] a.kind = "condition threw" -> pc = "condition" /\ attempt' = attempt + 1
      [] a.kind = "oracle" -> pc = "condition" /\ attempt' = 0 /\ response' = a.text

\* the trace of a run: for every stored step its index, stepNumber,
\* conditionResult and branchTaken
StepTrace ==
    [k \in 1..Len(steps) |->
        <<steps[k].instruction, steps[k].stepNumber, steps[k].conditionResult,
          steps[k].branchTaken>>]

\* what the scheduler goes on from
Observation == <<pc, trace, StepTrace, executionQueue, executedSteps, stepIndex, stepNumber>>

\* from the state the step started in and with the answer a, a step can
\* only lead to the observation obs
OnlyTo(a, obs) == ~ENABLED (AnswerWas(a) /\ Next /\ Observation' # obs)

\* C24: the sequential scheduler is deterministic: from the same state and
\* with the same answer of the awaited call, a step of the run leads to one
\* position, one sequence of executed indices, one trace of stored steps
\* (index, stepNumber, conditionResult, branchTaken), one queue and one set
\* of executed indices; so two runs with the same instructions and the same
\* answers have the same trace.
C24_Deterministic ==
    [][\A a \in Answers :
          AnswerWas(a) => \A obs \in {Observation'} : OnlyTo(a, obs)]_vars

\* a queue of two indices at the loop head, after a verdict selected a list
\* of two
C24_Witness ==
    /\ pc = "dequeue"
    /\ Len(executionQueue) = 2
    /\ executionQueue[1] # executionQueue[2]
    /\ \A k \in 1..2 : /\ ~hasExecuted(executedSteps, executionQueue[k])
                        /\ ~outOfBounds(executionQueue[k], N)
    /\ Len(steps) >= 1
    /\ steps[Len(steps)].conditionEvaluated

(***************************************************************************)
(* One awaited call at a time.                                             *)
(***************************************************************************)
\* the step started last has its StepResult stored, with the verdict of its
\* condition if it has one
LastStepStored ==
    /\ Len(steps) = Len(trace)
    /\ trace # <<>> =>
          LET last == steps[Len(steps)]
          IN  /\ last.instruction = trace[Len(trace)]
              /\ Inst(last.instruction).condition.present =>
                    last.conditionResult \in {"true", "false"}

\* C25: within one run at most one dispatch or condition evaluation is in
\* flight: at most one started step has no StepResult yet, the condition of a
\* step is evaluated only after the dispatch of that step has returned its
\* value, and an index is dequeued and started only when the step started
\* before it has been stored, after its dispatch and, if it is conditioned,
\* its condition evaluation.
C25_OneInFlight ==
    /\ [](Len(trace) - Len(steps) \in {0, 1})
    /\ [](pc = "condition" =>
            /\ Len(steps) = Len(trace) - 1
            /\ stepResult = processStepValue(stepNumber, stepIndex)
            /\ stepIndex = trace[Len(trace)])
    /\ [](pc = "dequeue" => LastStepStored)
    /\ [][trace' # trace => LastStepStored /\ pc = "dequeue"]_vars

\* a second step is being dispatched after the condition of the first was
\* evaluated
C25_Witness ==
    /\ pc = "dispatch"
    /\ Len(trace) = 2
    /\ Len(steps) = 1
    /\ steps[1].conditionEvaluated
    /\ steps[1].conditionResult = "true"

(***************************************************************************)
(* The attempts of one endpoint, router or agent step: step.do calls the   *)
(* handler again after a throw (index.ts lines 297-306), and each call of  *)
(* the handler hands a retry budget to the endpoint worker.                *)
(***************************************************************************)
\* `instruction.retries || 3`
retriesOrDefault(retries) == IF retries = Undefined \/ retries = 0 THEN 3 ELSE retries

\* the endpoint worker's makeApiCall: the API attempts it makes when every
\* one of them fails
exhaustedAttempts(retries) == retries

RetryCalls ==
    {[type |-> t, retries |-> r]
     : t \in {"endpoint", "router", "agent"}, r \in {Undefined, 0, 1, 2}}

NoGatewayCalls == [budgets |-> <<>>, attempts |-> 0]

InitRetry ==
    /\ instruction \in RetryCalls
    /\ ctx = NoGatewayCalls
    /\ handled = NoCall
    /\ pc = "call"
    /\ SchedulerAtRest

\* the handler threw: the substrate calls it again until the limit is spent
thrownAttempt ==
    /\ attempt' = attempt + 1
    /\ pc' = IF attempt' > DispatchRetryLimit THEN "failed" ELSE pc

\* router-step.ts lines 60-79, agent-step.ts lines 64-88: the Oracle's call
\* throws before any endpoint is called
RetryOracleThrows ==
    /\ pc = "call"
    /\ instruction.type \in {"router", "agent"}
    /\ thrownAttempt
    /\ UNCHANGED <<entryVars, instruction, ctx, handled, instructions, branchTargetSteps,
                   executionQueue, executedSteps, currentResult, stepIndex, stepNumber,
                   stepResult, evaluated, conditionResult, response, output, trace>>

\* the endpoint worker is called, every API attempt fails and the handler
\* throws on success false
RetryGatewayExhausted ==
    /\ pc = "call"
    /\ LET retries == retriesOrDefault(instruction.retries)
       IN  ctx' = [budgets |-> Append(ctx.budgets, retries),
                   attempts |-> ctx.attempts + exhaustedAttempts(retries)]
    /\ thrownAttempt
    /\ UNCHANGED <<entryVars, instruction, handled, instructions, branchTargetSteps,
                   executionQueue, executedSteps, currentResult, stepIndex, stepNumber,
                   stepResult, evaluated, conditionResult, response, output, trace>>

\* the endpoint worker is called and one of its API attempts succeeds
RetryGatewaySucceeds ==
    /\ pc = "call"
    /\ LET retries == retriesOrDefault(instruction.retries)
       IN  \E made \in 1..exhaustedAttempts(retries) :
              ctx' = [budgets |-> Append(ctx.budgets, retries),
                      attempts |-> ctx.attempts + made]
    /\ pc' = "returned"
    /\ UNCHANGED <<entryVars, instruction, handled, instructions, branchTargetSteps,
                   executionQueue, executedSteps, currentResult, stepIndex, stepNumber,
                   stepResult, evaluated, conditionResult, attempt, response, output, trace>>

NextRetry == RetryOracleThrows \/ RetryGatewayExhausted \/ RetryGatewaySucceeds

SpecRetry == InitRetry /\ [][NextRetry]_vars

\* the instruction's retries, 3 when it has none
declaredRetries == IF instruction.retries = Undefined THEN 3 ELSE instruction.retries

\* C26: for an endpoint, router or agent step, the retry budget handed to
\* the endpoint worker is the instruction's retries (3 when it has none) on
\* every attempt of the step, whatever the substrate's own retry does, and
\* the API attempts made for the step never exceed the substrate's attempts
\* times that budget.
C26_RetryComposition ==
    /\ \A k \in 1..Len(ctx.budgets) : ctx.budgets[k] = declaredRetries
    /\ ctx.attempts <= (DispatchRetryLimit + 1) * exhaustedAttempts(declaredRetries)

(***************************************************************************)
(* What a returned result says about the attempts that failed.             *)
(***************************************************************************)
errors == currentResult.errors

\* C27: finalizedAt does not imply success: an error recorded by an attempt
\* that failed stays in the result when the substrate's retry succeeds and
\* when the run is finalized, and every run that returns sets finalizedAt,
\* whatever its errors list holds; so there are returned results with
\* finalizedAt set and errors not empty.
C27_ErrorsOutliveRetry ==
    /\ [][Len(errors') >= Len(errors) /\ SubSeq(errors', 1, Len(errors)) = errors]_vars
    /\ [](pc = "done" => currentResult.finalizedAt /\ output = Returned(currentResult))
    /\ [](currentResult.finalizedAt => pc = "done")

\* an endpoint step whose first attempt failed and was recorded succeeded on
\* a retry, and the run returned
C27_Witness ==
    /\ pc = "done"
    /\ currentResult.finalizedAt
    /\ errors # <<>>
    /\ errors[1].errorType = "endpoint"
    /\ Len(steps) = N
    /\ \E k \in 1..Len(steps) : steps[k].stepNumber = errors[1].stepNumber

(***************************************************************************)
(* The dependency-graph scheduler (dag_executor.py, utils.py): steps       *)
(* declare the ids they depend on and, optionally, a selection dependency; *)
(* the graph is sorted topologically before anything runs, then every step *)
(* whose dependencies have finished may run, several at a time.            *)
(*   instructions   STEPS_CONFIG, a function from usid to the step         *)
(*   ctx            the store: the selection list and the ids whose        *)
(*                  outputs are written                                    *)
(*   handled        the state of every step                                *)
(*   executedSteps  the steps whose service was called                     *)
(*   trace          the steps in the order they were started               *)
(***************************************************************************)
Usids == {"A", "B", "C"}

\* a step of STEPS_CONFIG: the ids it depends on, whether it has a selection
\* dependency, and the dependencies whose outputs its templates reference
DagStep(dependencies, selection, references) ==
    [dependencies |-> dependencies, selection |-> selection, references |-> references]

\* every graph over the three ids without self-dependency; at most one step
\* has a selection dependency; a step references the outputs of all of its
\* dependencies or of none
StepsConfigs ==
    {[id \in Usids |-> DagStep(deps[id], id = sel,
                               IF id \in refs THEN deps[id] ELSE {})]
     : deps \in {d \in [Usids -> SUBSET Usids] : \A id \in Usids : id \notin d[id]},
       sel \in Usids \cup {"none"},
       refs \in SUBSET Usids}

\* A -> B -> C -> A
CyclicExample ==
    [id \in Usids |->
        DagStep(CASE id = "A" -> {"C"} [] id = "B" -> {"A"} [] id = "C" -> {"B"}, FALSE, {})]

\* payloads/parallel-dag.json: steps 1 and 2 have no dependency, step 3
\* depends on both and uses their results
ParallelDag ==
    [id \in Usids |->
        IF id = "C" THEN DagStep({"A", "B"}, FALSE, {"A", "B"}) ELSE DagStep({}, FALSE, {})]

\* a bug: the sort lists the steps without looking at their dependencies
RECURSIVE topologicalSortUnordered(_, _)
topologicalSortUnordered(config, sorted) ==
    LET rest == DOMAIN config \ Range(sorted)
    IN  IF rest = {} THEN sorted
        ELSE topologicalSortUnordered(config, Append(sorted, CHOOSE id \in rest : TRUE))

\* utils.py, topological sorting: a step is listed once every step it depends
\* on is listed; the steps of a cycle are never listed
RECURSIVE topologicalSort(_, _)
topologicalSort(config, sorted) ==
    LET ready == {id \in DOMAIN config \ Range(sorted) :
                     config[id].dependencies \subseteq Range(sorted)}
    IN  IF ready = {} THEN sorted
        ELSE topologicalSort(config, Append(sorted, CHOOSE id \in ready : TRUE))

\* cycle detection: the sort could not list every step
hasCycle(config) == Len(topologicalSort(config, <<>>)) < Cardinality(DOMAIN config)

Finished == {"completed", "aborted"}

\* a bug: one finished dependency is enough
dependenciesSatisfiedByAny(config, states, id) ==
    config[id].dependencies = {} \/ \E d \in config[id].dependencies : states[d] \in Finished

\* every dependency has completed or was aborted
dependenciesSatisfied(config, states, id) ==
    \A d \in config[id].dependencies : states[d] \in Finished

\* a bug: the selection list is not looked at
selectedAlways(config, selection, id) == TRUE

\* selection dependency: the step's usid is in the selection list
selected(config, selection, id) == config[id].selection => id \in selection

\* a bug: a reference to an output that was never written is substituted
\* as it is
missingReferencesIgnored(config, outputs, id) == {}

\* the referenced dependencies whose outputs are not in the store
missingReferences(config, outputs, id) == config[id].references \ outputs

DagAtRest ==
    /\ branchTargetSteps = {}
    /\ executionQueue = <<>>
    /\ currentResult = [steps |-> <<>>, finalizedAt |-> FALSE, errors |-> <<>>,
                        logs |-> <<>>]
    /\ stepIndex = -1
    /\ stepNumber = 0
    /\ stepResult = NoStepResult
    /\ evaluated = NothingEvaluated
    /\ conditionResult = "undefined"
    /\ attempt = 0
    /\ response = <<>>
    /\ output = NotStarted
    /\ instruction = NoCall
    /\ NoEntry

InitDag ==
    /\ instructions \in StepsConfigs
    /\ ctx \in {[selection |-> s, outputs |-> {}] : s \in {{}, Usids}}
    /\ handled = [id \in Usids |-> "pending"]
    /\ executedSteps = {}
    /\ trace = <<>>
    /\ pc = "validate"
    /\ DagAtRest

dagRest ==
    <<entryVars, instruction, instructions, branchTargetSteps, executionQueue, currentResult,
      stepIndex, stepNumber, stepResult, evaluated, conditionResult, attempt, response,
      output>>

\* the graph is validated before anything runs
ValidateGraph ==
    /\ pc = "validate"
    /\ pc' = IF hasCycle(instructions) THEN "rejected" ELSE "execute"
    /\ UNCHANGED <<dagRest, ctx, handled, executedSteps, trace>>

\* the step may run
Ready(id) ==
    /\ pc = "execute"
    /\ handled[id] = "pending"
    /\ dependenciesSatisfied(instructions, handled, id)

\* a ready step that is selected and has what it references is started
StartNode ==
    \E id \in Usids :
        /\ Ready(id)
        /\ selected(instructions, ctx.selection, id)
        /\ missingReferences(instructions, ctx.outputs, id) = {}
        /\ handled' = [handled EXCEPT ![id] = "running"]
        /\ executedSteps' = executedSteps \cup {id}
        /\ trace' = Append(trace, id)
        /\ UNCHANGED <<dagRest, ctx, pc>>

\* a ready step whose usid is not in the selection list is aborted
AbortUnselected ==
    \E id \in Usids :
        /\ Ready(id)
        /\ ~selected(instructions, ctx.selection, id)
        /\ handled' = [handled EXCEPT ![id] = "aborted"]
        /\ UNCHANGED <<dagRest, ctx, pc, executedSteps, trace>>

\* a ready step that references outputs that were never written is aborted
\* in its turn
AbortDependent ==
    \E id \in Usids :
        /\ Ready(id)
        /\ selected(instructions, ctx.selection, id)
        /\ missingReferences(instructions, ctx.outputs, id) # {}
        /\ handled' = [handled EXCEPT ![id] = "aborted"]
        /\ UNCHANGED <<dagRest, ctx, pc, executedSteps, trace>>

\* or it fails on the missing variable, and the failure stops the workflow
FailDependent ==
    \E id \in Usids :
        /\ Ready(id)
        /\ selected(instructions, ctx.selection, id)
        /\ missingReferences(instructions, ctx.outputs, id) # {}
        /\ handled' = [handled EXCEPT ![id] = "failed"]
        /\ pc' = "failed"
        /\ UNCHANGED <<dagRest, ctx, executedSteps, trace>>

\* a running step completes and its outputs are written to the store
CompleteNode ==
    \E id \in Usids :
        /\ pc = "execute"
        /\ handled[id] = "running"
        /\ handled' = [handled EXCEPT ![id] = "completed"]
        /\ ctx' = [ctx EXCEPT !.outputs = @ \cup {id}]
        /\ UNCHANGED <<dagRest, pc, executedSteps, trace>>

\* a running step fails; failed steps stop the workflow
FailNode ==
    \E id \in Usids :
        /\ pc = "execute"
        /\ handled[id] = "running"
        /\ handled' = [handled EXCEPT ![id] = "failed"]
        /\ pc' = "failed"
        /\ UNCHANGED <<dagRest, ctx, executedSteps, trace>>

\* every step has finished
FinishWorkflow ==
    /\ pc = "execute"
    /\ \A id \in Usids : handled[id] \in Finished
    /\ pc' = "done"
    /\ UNCHANGED <<dagRest, ctx, handled, executedSteps, trace>>

NextDag ==
    \/ ValidateGraph
    \/ StartNode
    \/ AbortUnselected
    \/ AbortDependent
    \/ FailDependent
    \/ CompleteNode
    \/ FailNode
    \/ FinishWorkflow

SpecDag == InitDag /\ [][NextDag]_vars

\* id depends, directly or through other steps, on itself
RECURSIVE dependsWithin(_, _, _)
dependsWithin(from, to, hops) ==
    /\ hops > 0
    /\ \/ to \in instructions[from].dependencies
       \/ \E via \in instructions[from].dependencies : dependsWithin(via, to, hops - 1)

Cyclic == \E id \in Usids : dependsWithin(id, id, Cardinality(Usids))

NothingRan ==
    /\ \A id \in Usids : handled[id] = "pending"
    /\ executedSteps = {}
    /\ trace = <<>>
    /\ ctx.outputs = {}

\* C28: in the dependency-graph scheduler a graph whose declared dependencies
\* contain a cycle is rejected before any step executes: no step of it is
\* ever started, aborted or failed, no output is written, and the workflow
\* never gets past validation; a graph without cycle is never rejected.
C28_CyclicRejected ==
    /\ Cyclic => NothingRan /\ pc \in {"validate", "rejected"}
    /\ ~Cyclic => pc # "rejected"

\* the cycle A -> B -> C -> A was rejected
C28_Witness ==
    /\ instructions = CyclicExample
    /\ pc = "rejected"
    /\ NothingRan

\* the steps id depends on have all finished
DependenciesFinished(id) ==
    \A d \in instructions[id].dependencies : handled[d] \in Finished

\* C29: in the dependency-graph scheduler a step starts only after every
\* step listed in its dependencies has finished, completed or aborted: a step
\* is started only from a state in which they all have, and a step that is
\* running or has run has no unfinished dependency; steps whose dependencies
\* are satisfied may be running at the same time.
C29_StartsAfterDependencies ==
    /\ [](\A id \in Usids :
            handled[id] \in {"running", "completed"} \/ id \in executedSteps
                => DependenciesFinished(id))
    /\ [][\A id \in Usids :
            handled[id] = "pending" /\ handled'[id] = "running"
                => DependenciesFinished(id) /\ pc = "execute"]_vars

\* the parallel example: steps 1 and 2 are running at the same time and
\* step 3 has not started
C29_Witness ==
    /\ instructions = ParallelDag
    /\ handled["A"] = "running"
    /\ handled["B"] = "running"
    /\ handled["C"] = "pending"
    /\ ~ENABLED StartNode

\* the step has a selection dependency and its usid is not in the list
Unselected(id) == instructions[id].selection /\ id \notin ctx.selection

\* the step references an output of a dependency that was aborted
ReferencesAborted(id) ==
    \E d \in instructions[id].references : handled[d] = "aborted"

\* C30: in the dependency-graph scheduler a step whose usid is not in the
\* list of its selection dependency is never executed and never failed, and
\* is aborted once its turn has come; a dependent of an aborted step that
\* references none of its outputs is not blocked by it (it is started as soon
\* as its dependencies have finished, and has completed when the workflow
\* ends); a dependent that references an output of an aborted step is never
\* executed: it is aborted or failed.
C30_SelectionAbort ==
    \A id \in Usids :
        /\ Unselected(id) =>
              /\ handled[id] \in {"pending", "aborted"}
              /\ id \notin executedSteps
              /\ pc = "done" => handled[id] = "aborted"
        /\ ReferencesAborted(id) =>
              /\ handled[id] \in {"pending", "aborted", "failed"}
              /\ id \notin executedSteps
        /\ ( /\ ~Unselected(id)
             /\ ~ReferencesAborted(id)
             /\ \E d \in instructions[id].dependencies : handled[d] = "aborted" ) =>
              /\ pc = "execute" /\ handled[id] = "pending" /\ DependenciesFinished(id) =>
                    /\ Ready(id)
                    /\ selected(instructions, ctx.selection, id)
                    /\ missingReferences(instructions, ctx.outputs, id) = {}
              /\ pc = "done" => handled[id] = "completed" /\ id \in executedSteps

\* A was aborted for its selection dependency; B, which depends on A and
\* uses its output, was aborted in its turn; C, which depends on A and uses
\* none of its outputs, ran
C30_Witness ==
    /\ pc = "done"
    /\ Unselected("A")
    /\ handled["A"] = "aborted"
    /\ instructions["B"] = DagStep({"A"}, FALSE, {"A"})
    /\ handled["B"] = "aborted"
    /\ instructions["C"] = DagStep({"A"}, FALSE, {})
    /\ handled["C"] = "completed"
    /\ executedSteps = {"C"}

(***************************************************************************)
(* The graph a run walks.                                                  *)
(***************************************************************************)
\* index + 1 when it is inside the array
Fallthrough(idx) == IF idx + 1 < N THEN {idx + 1} ELSE {}

\* the indices the stored StepResult says its step led to: the indices in
\* range of the list of the branch taken, index + 1 when that list is empty,
\* and index + 1 after an unconditioned step that is no branch target
ChosenEdges(step) ==
    IF step.conditionEvaluated
    THEN IF TakenList(step) # <<>>
         THEN Range(TakenList(step)) \cap (0..(N - 1))
         ELSE Fallthrough(step.instruction)
    ELSE IF step.instruction \in branchTargets(instructions) THEN {}
         ELSE Fallthrough(step.instruction)

\* the indices one chosen edge away from a set of indices
OneEdgeFrom(indices) ==
    UNION {ChosenEdges(steps[k]) : k \in {j \in 1..Len(steps) : steps[j].instruction \in indices}}

RECURSIVE ReachableFrom(_)
ReachableFrom(indices) ==
    IF OneEdgeFrom(indices) \subseteq indices THEN indices
    ELSE ReachableFrom(indices \cup OneEdgeFrom(indices))

\* C31: in every run the first executed step is index 0, with stepNumber 1;
\* an index other than 0 executes only if a step stored before it led to it
\* by the list of the branch it took or by a permitted fallthrough; and when
\* the run returns, the executed indices are exactly those reachable from
\* index 0 along the edges chosen during the run.
C31_ExecutedIsReachable ==
    /\ trace # <<>> => trace[1] = 0
    /\ steps # <<>> => steps[1].instruction = 0 /\ steps[1].stepNumber = 1
    /\ \A k \in 2..Len(trace) :
          \E j \in 1..(k - 1) : j <= Len(steps) /\ trace[k] \in ChosenEdges(steps[j])
    /\ pc = "done" =>
          /\ Range(trace) = ReachableFrom({0})
          /\ executedSteps = ReachableFrom({0})

\* Example A returned after the check took its false branch: the indices 0,
\* 1 and 3 executed and index 2, which no executed step led to, did not
C31_Witness ==
    /\ instructions = ExampleA
    /\ pc = "done"
    /\ executedSteps = {0, 1, 3}
    /\ ReachableFrom({0}) = {0, 1, 3}

\* what the stored StepResult says its step pushed on the queue, in order
PushedBy(step) ==
    IF step.conditionEvaluated /\ TakenList(step) # <<>> THEN TakenList(step)
    ELSE IF ChosenEdges(step) = {} THEN <<>>
    ELSE <<step.instruction + 1>>

\* everything pushed on the queue so far, in the order it was pushed
RECURSIVE PushedUpTo(_)
PushedUpTo(k) == IF k = 0 THEN <<0>> ELSE PushedUpTo(k - 1) \o PushedBy(steps[k])

\* the indices of the array in a sequence, each at its first place only
RECURSIVE FirstEnqueues(_, _)
FirstEnqueues(seq, seen) ==
    IF seq = <<>> THEN <<>>
    ELSE IF Head(seq) \in seen \/ outOfBounds(Head(seq), N)
         THEN FirstEnqueues(Tail(seq), seen)
         ELSE <<Head(seq)>> \o FirstEnqueues(Tail(seq), seen \cup {Head(seq)})

EnqueueOrder == FirstEnqueues(PushedUpTo(Len(steps)), {})

ResultOfStepBefore ==
    LET before == trace[Len(trace) - 1]
        k == CHOOSE j \in 1..Len(steps) : steps[j].instruction = before
    IN  steps[k].result

\* C33: the previous result handed to a step is the original context for
\* the first executed step, and otherwise the result of the step executed
\* just before it, the StepResult appended most recently; it is not the
\* result of the instruction at index - 1.
C33_PreviousResult ==
    pc \in {"dispatch", "condition"} =>
        /\ ctx.stepIndex = trace[Len(trace)]
        /\ ctx.isFirstStep = (Len(trace) = 1)
        /\ ctx.previousResult = IF Len(trace) = 1 THEN context ELSE ResultOfStepBefore

\* the true branch [2, 1] was taken at index 0 and index 2 has run: index 1
\* is handed the result of index 2, not the result of index 0
C33_Witness ==
    /\ pc = "dispatch"
    /\ trace = <<0, 2, 1>>
    /\ stepIndex = 1
    /\ ctx.previousResult = processStepValue(2, 2).result
    /\ ctx.previousResult # processStepValue(1, 0).result

(***************************************************************************)
(* What a run leaves alone.                                                *)
(***************************************************************************)
\* the index is named by a branch list of some instruction
NamedByALists(idx) ==
    \E k \in 1..N :
        /\ instructions[k].condition.present
        /\ \/ \E p \in 1..Len(instructions[k].condition.ifTrue) :
                 instructions[k].condition.ifTrue[p] = idx
           \/ \E p \in 1..Len(instructions[k].condition.ifFalse) :
                 instructions[k].condition.ifFalse[p] = idx

\* C34: branchTargetSteps is the union of the ifTrue and ifFalse lists of all
\* instructions, whether or not their conditions are ever evaluated, from
\* before the first dequeue on, and neither it nor the instruction array is
\* changed by any dequeue, dispatch, condition evaluation or enqueue.
C34_FixedBeforeFirstDequeue ==
    /\ [](\A idx \in -1..N : idx \in branchTargetSteps <=> NamedByALists(idx))
    /\ [](branchTargetSteps \subseteq -1..N)
    /\ [][branchTargetSteps' = branchTargetSteps /\ instructions' = instructions]_vars

\* a run returned without executing a conditioned instruction whose list is
\* in branchTargetSteps all the same
C34_Witness ==
    /\ pc = "done"
    /\ \E k \in 1..N :
          /\ instructions[k].condition.present
          /\ (k - 1) \notin executedSteps
          /\ instructions[k].condition.ifTrue # <<>>
          /\ instructions[k].condition.ifTrue[1] \in branchTargetSteps
          /\ \A j \in (1..N) \ {k} :
                ~instructions[j].condition.present
                \/ /\ instructions[k].condition.ifTrue[1]
                        \notin Range(instructions[j].condition.ifTrue)
                   /\ instructions[k].condition.ifTrue[1]
                        \notin Range(instructions[j].condition.ifFalse)

(***************************************************************************)
(* The Math Chain shape: one conditioned step routing to one of two        *)
(* unconditioned steps that nothing else names.                            *)
(***************************************************************************)
NamedBy(k, idx) ==
    /\ instructions[k].condition.present
    /\ idx \in Range(instructions[k].condition.ifTrue)
                  \cup Range(instructions[k].condition.ifFalse)

\* the instruction at index idx has the shape of step 5 of the Math Chain
MathChainShape(idx) ==
    LET cond == Inst(idx).condition IN
    /\ cond.present
    /\ Len(cond.ifTrue) = 1 /\ Len(cond.ifFalse) = 1
    /\ cond.ifTrue[1] # cond.ifFalse[1]
    /\ \A t \in {cond.ifTrue[1], cond.ifFalse[1]} :
          /\ t \in 0..(N - 1)
          /\ ~Inst(t).condition.present
          /\ \A k \in (1..N) \ {idx + 1} : ~NamedBy(k, t)

UntakenList(step) ==
    IF step.branchTaken = "true" THEN Inst(step.instruction).condition.ifFalse
    ELSE Inst(step.instruction).condition.ifTrue

SomeRequestedMissing ==
    \E k \in 1..Len(instruction.collectFromSteps) :
        instruction.collectFromSteps[k] \notin StoredNumbers

\* the completeness check was made and the Oracle's answer reads as true
CheckReturnedTrue ==
    /\ instruction.completionCheck.expression
    /\ response # <<>>
    /\ evaluateCondition(response)

\* the requested StepResults that exist, in the order requested
ExistingRequested ==
    LET present == SelectSeq(instruction.collectFromSteps, LAMBDA n : n \in StoredNumbers)
    IN  [j \in 1..Len(present) |-> ctx.steps[present[j]]]

\* C36: a Thread step in llm mode fails exactly when a requested step is
\* missing and the completeness check does not return true (the verdict is
\* false or unclear, or no expression is configured); otherwise it returns
\* the formatted results of the requested steps that exist, so with a true
\* verdict it succeeds on what exists and with nothing missing it succeeds
\* whatever the verdict.
C36_LlmThread ==
    (pc = "returned" /\ instruction.completionCheck.mode = "llm")
    => /\ handled.type = "threw" <=> (SomeRequestedMissing /\ ~CheckReturnedTrue)
       /\ handled.type = "returned"
             => handled.result = formatResults(instruction, ExistingRequested)

(***************************************************************************)
(* What a Thread step can see when the scheduler dispatches it.            *)
(***************************************************************************)
\* C37: a Thread step collects only StepResults with a stepNumber below its
\* own: a requested number at or above its own step number is among the
\* missing ones (and in deterministic mode the step then throws), and a
\* requested number is matched against the order of execution, so the
\* result collected for number n is that of the n-th step executed,
\* whatever index that instruction has.
C37_ThreadSeesEarlierSteps ==
    (pc = "dispatch" /\ Inst(stepIndex).type = "thread") =>
        LET inst == Inst(stepIndex)
            requested == inst.collectFromSteps
            missing == missingSteps(inst, steps)
            collected == collectedResults(inst, steps)
        IN  /\ \A k \in 1..Len(requested) :
                  requested[k] >= stepNumber => requested[k] \in Range(missing)
            /\ (inst.completionCheck.mode = "deterministic"
                 /\ \E k \in 1..Len(requested) : requested[k] >= stepNumber)
                  => \A o \in executeStep(inst, steps) : ~o.ok
            /\ Len(collected) + Len(missing) = Len(requested)
            /\ \A j \in 1..Len(collected) :
                  /\ collected[j].stepNumber < stepNumber
                  /\ collected[j].instruction = trace[collected[j].stepNumber]

\* the Thread at index 1 runs third and asks for step 2, which was the
\* instruction at index 2
C37_Witness ==
    /\ pc = "dispatch"
    /\ Inst(stepIndex).type = "thread"
    /\ trace = <<0, 2, 1>>
    /\ Inst(stepIndex).collectFromSteps = <<2>>
    /\ collectedResults(Inst(stepIndex), steps)[1].instruction = 2
    /\ missingSteps(Inst(stepIndex), steps) = <<>>

(***************************************************************************)
(* workflow-engine-ui/app/page.tsx: reordering the instruction rows by     *)
(* drag and drop.  The page's state is kept in ctx (instructions,          *)
(* instructionModes, draggedIndex; a null draggedIndex is the empty        *)
(* sequence), and handled keeps the rows as they were when the drop began. *)
(***************************************************************************)
MaxRows == 3

\* a row of the editor: a plain text, or an object with a condition; `id`
\* stands for the row's text
Row(id, conditioned, ifTrue, ifFalse) ==
    [id |-> id, conditioned |-> conditioned, ifTrue |-> ifTrue, ifFalse |-> ifFalse]

PlainRow(id) == Row(id, FALSE, <<>>, <<>>)

\* the rows of an editor with one conditioned row, whose lists name rows of
\* the editor or an index just outside it
EditorRows ==
    UNION {UNION {{[[k \in 1..n |-> PlainRow(k)] EXCEPT ![p] = Row(p, TRUE, tf[1], tf[2])]
                   : tf \in (Lists(-1..n) \X ShortLists(-1..n))}
                  : p \in 1..n}
           : n \in 1..MaxRows}

EditorModes(rows) ==
    {m \in [1..Len(rows) -> {"simple", "conditional", "endpoint"}] :
        \A k \in 1..Len(rows) : (m[k] = "conditional") <=> rows[k].conditioned}

\* Array.prototype.splice(index, 1) and splice(index, 0, item), index from 0
spliceOut(list, index) == SubSeq(list, 1, index) \o SubSeq(list, index + 2, Len(list))
spliceIn(list, index, item) ==
    SubSeq(list, 1, index) \o <<item>> \o SubSeq(list, index + 1, Len(list))

\* a bug: the row dropped onto keeps its index when a row moves down
shiftIndexBeforeTarget(idx, draggedIndex, targetIndex) ==
    IF idx = draggedIndex THEN targetIndex
    ELSE IF draggedIndex < targetIndex
         THEN IF idx > draggedIndex /\ idx < targetIndex THEN idx - 1 ELSE idx
         ELSE IF idx >= targetIndex /\ idx < draggedIndex THEN idx + 1 ELSE idx

\* lines 515-524 and 530-538: the new value of a branch index
shiftIndex(idx, draggedIndex, targetIndex) ==
    IF idx = draggedIndex THEN targetIndex
    ELSE IF draggedIndex < targetIndex
         THEN IF idx > draggedIndex /\ idx <= targetIndex THEN idx - 1 ELSE idx
         ELSE IF idx >= targetIndex /\ idx < draggedIndex THEN idx + 1 ELSE idx

\* lines 509-543: the map over the reordered rows
updateReferences(rows, draggedIndex, targetIndex) ==
    [k \in 1..Len(rows) |->
        IF rows[k].conditioned
        THEN [rows[k] EXCEPT
                 !.ifTrue = [j \in 1..Len(@) |-> shiftIndex(@[j], draggedIndex, targetIndex)],
                 !.ifFalse = [j \in 1..Len(@) |-> shiftIndex(@[j], draggedIndex, targetIndex)]]
        ELSE rows[k]]

NoDrop == [instructions |-> <<>>, instructionModes |-> <<>>,
           draggedIndex |-> <<>>, targetIndex |-> <<>>]

InitDrop ==
    /\ \E rows \in EditorRows : \E modes \in EditorModes(rows) :
          ctx = [instructions |-> rows, instructionModes |-> modes, draggedIndex |-> <<>>]
    /\ handled = NoDrop
    /\ instruction = <<>>
    /\ pc = "idle"
    /\ SchedulerAtRest

dropRest ==
    <<entryVars, instruction, instructions, branchTargetSteps, executionQueue, executedSteps,
      currentResult, stepIndex, stepNumber, stepResult, evaluated, conditionResult, attempt,
      response, output, trace>>

\* lines 472-474
handleDragStart ==
    /\ pc = "idle"
    /\ \E index \in 0..(Len(ctx.instructions) - 1) :
          ctx' = [ctx EXCEPT !.draggedIndex = <<index>>]
    /\ UNCHANGED <<pc, handled, dropRest>>

\* lines 549-552
handleDragEnd ==
    /\ pc = "idle"
    /\ ctx.draggedIndex # <<>>
    /\ ctx' = [ctx EXCEPT !.draggedIndex = <<>>]
    /\ UNCHANGED <<pc, handled, dropRest>>

\* lines 487-547
handleDrop ==
    /\ pc = "idle"
    /\ \E targetIndex \in 0..(Len(ctx.instructions) - 1) :
          /\ handled' = [instructions |-> ctx.instructions,
                         instructionModes |-> ctx.instructionModes,
                         draggedIndex |-> ctx.draggedIndex,
                         targetIndex |-> <<targetIndex>>]
          /\ IF ctx.draggedIndex = <<>> \/ ctx.draggedIndex = <<targetIndex>>
             THEN ctx' = [ctx EXCEPT !.draggedIndex = <<>>]
             ELSE LET draggedIndex == ctx.draggedIndex[1]
                      newInstructions ==
                          spliceIn(spliceOut(ctx.instructions, draggedIndex), targetIndex,
                                   ctx.instructions[draggedIndex + 1])
                      newModes ==
                          spliceIn(spliceOut(ctx.instructionModes, draggedIndex), targetIndex,
                                   ctx.instructionModes[draggedIndex + 1])
                  IN  ctx' = [instructions |->
                                  updateReferences(newInstructions, draggedIndex, targetIndex),
                              instructionModes |-> newModes,
                              draggedIndex |-> <<>>]
    /\ pc' = "dropped"
    /\ UNCHANGED dropRest

NextDrop == handleDragStart \/ handleDragEnd \/ handleDrop

SpecDrop == InitDrop /\ [][NextDrop]_vars

\* the position (from 1) of the row with this id
PositionOf(rows, id) == CHOOSE k \in 1..Len(rows) : rows[k].id = id

\* the id of the row a branch index names, 0 when it names no row
RowNamed(rows, idx) == IF idx \in 0..(Len(rows) - 1) THEN rows[idx + 1].id ELSE 0

SameReferences(before, after) ==
    /\ Len(after) = Len(before)
    /\ \A j \in 1..Len(before) : RowNamed(ctx.instructions, after[j])
                                    = RowNamed(handled.instructions, before[j])

\* the drop moved a row
Reordered ==
    /\ pc = "dropped"
    /\ handled.draggedIndex # <<>>
    /\ handled.draggedIndex # handled.targetIndex

\* C38: after a drop that moves the row at position d to position t, the
\* rows are the same rows with the moved one at t and the others in their
\* old order, every ifTrue and ifFalse index names the row it named before
\* the move, and every row has the mode it had before.
C38_ReorderKeepsReferences ==
    Reordered =>
        LET before == handled.instructions
            after == ctx.instructions
        IN  /\ Len(after) = Len(before)
            /\ {after[k].id : k \in 1..Len(after)} = {before[k].id : k \in 1..Len(before)}
            /\ after[handled.targetIndex[1] + 1].id = before[handled.draggedIndex[1] + 1].id
            /\ spliceOut([k \in 1..Len(after) |-> after[k].id], handled.targetIndex[1])
                  = spliceOut([k \in 1..Len(before) |-> before[k].id], handled.draggedIndex[1])
            /\ Len(ctx.instructionModes) = Len(after)
            /\ \A k \in 1..Len(after) :
                  LET old == before[PositionOf(before, after[k].id)]
                  IN  /\ after[k].conditioned = old.conditioned
                      /\ SameReferences(old.ifTrue, after[k].ifTrue)
                      /\ SameReferences(old.ifFalse, after[k].ifFalse)
                      /\ ctx.instructionModes[k]
                            = handled.instructionModes[PositionOf(before, after[k].id)]

\* the first row was moved down onto the row its neighbour's condition names
C38_Witness ==
    /\ Reordered
    /\ handled.draggedIndex = <<0>>
    /\ handled.targetIndex = <<2>>
    /\ handled.instructions[2].ifTrue = <<2, 0>>
    /\ ctx.instructions[1].ifTrue = <<1, 2>>
    /\ ctx.instructions[1].id = 2

(***************************************************************************)
(* workflow-flow-ui/app/page.tsx: exporting the flow drawn in the editor.  *)
(* ctx holds the editor's nodes (their ids, in array order), its edges     *)
(* (<<source, target>>, in array order) and the ids of the nodes whose     *)
(* label contains "start"; handled holds what the export computed.         *)
(***************************************************************************)
MaxNodes == 4
MaxEdges == 4

\* lines 325-329: adjacency[nodeId] || []
adjacency(edges, nodeId) ==
    LET out == SelectSeq(edges, LAMBDA e : e[1] = nodeId)
    IN  [k \in 1..Len(out) |-> out[k][2]]

\* lines 332-333: the nodes that are the target of no edge, in array order
startNodes(nodes, edges) ==
    SelectSeq(nodes, LAMBDA n : ~\E k \in 1..Len(edges) : edges[k][2] = n)

\* lines 339-345: visit, and the forEach over the adjacency list
RECURSIVE visit(_, _, _, _)
RECURSIVE visitEach(_, _, _, _)
visit(nodeId, nodes, edges, acc) ==
    IF nodeId \in acc.visited THEN acc
    ELSE visitEach(adjacency(edges, nodeId), nodes, edges,
                   [visited |-> acc.visited \cup {nodeId},
                    orderedNodes |-> IF nodeId \in Range(nodes)
                                     THEN Append(acc.orderedNodes, nodeId)
                                     ELSE acc.orderedNodes])

visitEach(ids, nodes, edges, acc) ==
    IF ids = <<>> THEN acc
    ELSE visitEach(Tail(ids), nodes, edges, visit(Head(ids), nodes, edges, acc))

\* lines 348-354: the nodes not visited are added in array order
RECURSIVE addUnvisited(_, _)
addUnvisited(nodes, acc) ==
    IF nodes = <<>> THEN acc
    ELSE addUnvisited(Tail(nodes),
                      IF Head(nodes) \in acc.visited THEN acc
                      ELSE [visited |-> acc.visited \cup {Head(nodes)},
                            orderedNodes |-> Append(acc.orderedNodes, Head(nodes))])

\* lines 336-354
orderedNodes(nodes, edges) ==
    addUnvisited(nodes, visitEach(startNodes(nodes, edges), nodes, edges,
                                  [visited |-> {}, orderedNodes |-> <<>>])).orderedNodes

\* lines 365-368: the nodes labelled "start" are left out of the instructions
exportedInstructions(nodes, edges, labelledStart) ==
    SelectSeq(orderedNodes(nodes, edges), LAMBDA n : n \notin labelledStart)

NotExported == [orderedNodes |-> <<>>, instructions |-> <<>>]

\* lines 236-254: the editor's nodes; no edge is drawn yet
InitExport ==
    /\ \E n \in 1..MaxNodes : \E s \in {{}, {1}} :
          ctx = [nodes |-> [k \in 1..n |-> k], edges |-> <<>>, labelledStart |-> s]
    /\ handled = NotExported
    /\ instruction = <<>>
    /\ pc = "editing"
    /\ SchedulerAtRest

\* lines 276-279: an edge is drawn between two nodes not yet connected that way
onConnect ==
    /\ pc = "editing"
    /\ Len(ctx.edges) < MaxEdges
    /\ \E source \in Range(ctx.nodes) : \E target \in Range(ctx.nodes) \ {source} :
          /\ <<source, target>> \notin Range(ctx.edges)
          /\ ctx' = [ctx EXCEPT !.edges = Append(@, <<source, target>>)]
    /\ UNCHANGED <<pc, handled, dropRest>>

\* lines 323-368
handleExportFlow ==
    /\ pc = "editing"
    /\ handled' = [orderedNodes |-> orderedNodes(ctx.nodes, ctx.edges),
                   instructions |->
                       exportedInstructions(ctx.nodes, ctx.edges, ctx.labelledStart)]
    /\ pc' = "exported"
    /\ UNCHANGED <<ctx, dropRest>>

NextExport == onConnect \/ handleExportFlow

SpecExport == InitExport /\ [][NextExport]_vars

\* the nodes reached from a set of nodes along at most k edges
RECURSIVE Downstream(_, _)
Downstream(set, k) ==
    IF k = 0 THEN set
    ELSE Downstream(set \cup {e[2] : e \in {x \in Range(ctx.edges) : x[1] \in set}}, k - 1)

\* no node is reached from itself
AcyclicFlow ==
    \A n \in Range(ctx.nodes) :
        n \notin Downstream({e[2] : e \in {x \in Range(ctx.edges) : x[1] = n}},
                            Len(ctx.nodes))

Place(seq, x) == CHOOSE k \in 1..Len(seq) : seq[k] = x

\* C39: the export orders the nodes topologically: every node is once in the
\* exported order (once in the instructions unless labelled start), and for
\* every edge u -> v of an acyclic graph u comes before v in the instructions.
C39_ExportIsTopological ==
    pc = "exported" =>
        /\ NoRepeat(handled.orderedNodes)
        /\ Range(handled.orderedNodes) = Range(ctx.nodes)
        /\ NoRepeat(handled.instructions)
        /\ Range(handled.instructions) = Range(ctx.nodes) \ ctx.labelledStart
        /\ AcyclicFlow =>
              \A e \in Range(ctx.edges) :
                  (e[1] \in Range(handled.instructions) /\ e[2] \in Range(handled.instructions))
                  => Place(handled.instructions, e[1]) < Place(handled.instructions, e[2])

====
